---- MODULE Spec2Model ----
(***************************************************************************)
(* Model of the cyber-risk platform: the deterministic risk engine         *)
(* (engines/risk_engine.py), the orchestrator's full cycle                 *)
(* (backend/core/orchestrator.py) and the prediction history of the        *)
(* ensemble engine (engines/ultra_precise_risk_engine.py).                 *)
(*                                                                         *)
(* Numbers.  Python floats are modelled in fixed point: a score s is the   *)
(* integer s * 10000 (100.0 is 1000000), a multiplier m is the integer     *)
(* m * 10 (1.5 is 15), a CVSS score and a threat-intel value are in        *)
(* tenths.  Divisions truncate.                                            *)
(*                                                                         *)
(* Identities.  assets and vulnerabilities are Python dicts that keep      *)
(* insertion order and are never deleted from; ids are labels, so the i-th *)
(* inserted key is named i and both dicts are sequences indexed by id.     *)
(* An id greater than Len(vulnerabilities) is a dangling reference.        *)
(***************************************************************************)
EXTENDS Integers, Sequences, FiniteSets, TLC

\* ---------------------------------------------------------------- bounds
\* The capacity of prediction_history, 1000 in the code, scaled down.
HistoryCapacity == 3

\* The number of calculate_ultra_precise_risk calls on one engine.
MaxCalls == 5

\* The number of vulnerabilities of the engine when the aggregator is
\* checked alone.
MaxAggVulns == 3

\* The number of vulnerabilities of the asset when its floats are computed.
MaxFloatVulns == 12

\* The number of steps of a run that checks the gates of the ensemble
\* engine, and the length of the longest vulnerability list it passes.
MaxGateSteps == 1
MaxGateVulns == 5

\* The number of assets of the engine when concurrent cycles run on it.
MaxCycleAssets == 2

\* The number of ingestion calls (add_asset, add_vulnerability,
\* add_threat_intelligence, vulnerability_ids.append) of a run; it bounds
\* the number of assets, of vulnerabilities and of links as well.
MaxOps == 5

\* ---------------------------------------------------------------- helpers
Unit == 100 * 100
Hundred == 100 * Unit

Min(a, b) == IF a <= b THEN a ELSE b
Max(a, b) == IF a >= b THEN a ELSE b

RECURSIVE SumSeq(_)
SumSeq(s) == IF s = <<>> THEN 0 ELSE Head(s) + SumSeq(Tail(s))

RECURSIVE MaxSeq(_)
MaxSeq(s) == IF Len(s) = 1 THEN s[1] ELSE Max(Head(s), MaxSeq(Tail(s)))

Range(s) == {s[i] : i \in 1..Len(s)}

Count(s, P(_)) == Cardinality({i \in 1..Len(s) : P(s[i])})

\* Python round(x, 2) on a score: to the nearest 1/100.
Round2(x) == ((x + 50) \div 100) * 100

\* ---------------------------------------------------------------- inputs
None == "None"

CveIds == {"CVE-1"}

\* Vulnerability objects handed to add_vulnerability.
VulnInputs ==
  { [severity |-> "Critical", cvss_score |-> 98, exploit_available |-> TRUE,
     exploit_public |-> TRUE, patch_available |-> FALSE,
     attack_vector |-> "Network", cve_id |-> "CVE-1"],
    [severity |-> "High", cvss_score |-> 75, exploit_available |-> TRUE,
     exploit_public |-> FALSE, patch_available |-> FALSE,
     attack_vector |-> None, cve_id |-> None] }

\* Asset objects handed to add_asset: a fresh Asset has no stored score
\* (risk_score reads 0.0) and no linked vulnerability.
AssetInputs ==
  { [criticality |-> "Mission Critical", location |-> "dc1",
     exposed_to_internet |-> TRUE, contains_sensitive_data |-> TRUE,
     patch_level |-> "Outdated", antivirus_status |-> "Active",
     firewall_enabled |-> TRUE],
    [criticality |-> "Medium", location |-> None,
     exposed_to_internet |-> FALSE, contains_sensitive_data |-> FALSE,
     patch_level |-> "Unknown", antivirus_status |-> "Inactive",
     firewall_enabled |-> FALSE] }

\* threat_score arguments of add_threat_intelligence, in tenths (one out of
\* range: the engine clamps it).
ThreatInputs == {4, 15}

VARIABLES
  assets,            \* engine.assets: sequence of Asset records, index = id
  vulnerabilities,   \* engine.vulnerabilities: sequence of records, index = id
  threat_intel,      \* engine.threat_intel: CVE id -> tenths, -1 when absent
  risk_scenarios,    \* engine.risk_scenarios
  ret,               \* what the last operation returned
  ops,               \* the number of ingestion calls so far
  pc,                \* per caller: its position in calculate_all_risks
  local,             \* per caller: the locals of its running cycle
  out,               \* per caller: what its last calculate_all_risks returned
  prediction_history,\* UltraPreciseRiskEngine.prediction_history
  clock,             \* datetime.now(): the calls started on the ultra engine
  calls_log,         \* per call, in order: the path it took and its entry
  uret,              \* what the last calculate_ultra_precise_risk returned
  upc,               \* per thread: its position in calculate_ultra_precise_risk
  ulocal             \* per thread: the locals of its running call

engineVars == <<assets, vulnerabilities, threat_intel, risk_scenarios, ret, ops>>
cycleVars == <<pc, local, out>>
ultraVars == <<prediction_history, clock, calls_log, uret, upc, ulocal>>
vars == <<engineVars, cycleVars, ultraVars>>

\* The callers of calculate_all_risks on one orchestrator.
Callers == {"caller1", "caller2"}

\* The threads calling calculate_ultra_precise_risk on one engine.
Threads == {"thread1", "thread2"}

\* ---------------------------------------------------------------- scorer
CVSS_MULTIPLIERS(severity) ==
  CASE severity = "Critical" -> 10
    [] severity = "High" -> 8
    [] severity = "Medium" -> 5
    [] severity = "Low" -> 2
    [] severity = "Informational" -> 0
    [] OTHER -> 5

CRITICALITY_MULTIPLIERS(criticality) ==
  CASE criticality = "Mission Critical" -> 20
    [] criticality = "High" -> 15
    [] criticality = "Medium" -> 10
    [] criticality = "Low" -> 5
    [] OTHER -> 10

HasThreatIntel(vuln) ==
  /\ vuln.cve_id # None
  /\ vuln.cve_id \in DOMAIN threat_intel
  /\ threat_intel[vuln.cve_id] >= 0

\* A variant that tests exploit_available first.
ExploitFactorAvailableFirst(vuln) ==
  IF vuln.exploit_available THEN 13 ELSE IF vuln.exploit_public THEN 15 ELSE 10

\* exploit_factor of calculate_vulnerability_risk.
ExploitFactor(vuln) ==
  IF vuln.exploit_public THEN 15 ELSE IF vuln.exploit_available THEN 13 ELSE 10

\* A variant of the final clamp that drops a score above 100 instead of
\* capping it.
DropAbove(risk_score, cap) == IF risk_score > cap THEN 0 ELSE risk_score

\* min(risk_score, 100.0)
ClampScore(risk_score, cap) == Min(risk_score, cap)

\* calculate_vulnerability_risk: the score of one vulnerability.
calculate_vulnerability_risk(vuln) ==
  LET base_score == vuln.cvss_score
      severity_mult == CVSS_MULTIPLIERS(vuln.severity)
      exploit_factor == ExploitFactor(vuln)
      patch_factor == IF vuln.patch_available THEN 7 ELSE 10
      vector_mult == CASE vuln.attack_vector = "Network" -> 13
                       [] vuln.attack_vector = "Adjacent" -> 11
                       [] vuln.attack_vector = "Local" -> 9
                       [] vuln.attack_vector = "Physical" -> 6
                       [] OTHER -> 10
      \* 1.0 + threat * 0.5, in hundredths
      threat_mult == IF HasThreatIntel(vuln)
                     THEN 100 + threat_intel[vuln.cve_id] * 5 ELSE 100
      risk_score == (base_score * severity_mult * exploit_factor * patch_factor
                     * vector_mult * threat_mult) \div 100
  IN  ClampScore(risk_score, Hundred)

\* ---------------------------------------------------------------- aggregator
NewAsset(input) ==
  [criticality |-> input.criticality, location |-> input.location,
   exposed_to_internet |-> input.exposed_to_internet,
   contains_sensitive_data |-> input.contains_sensitive_data,
   patch_level |-> input.patch_level,
   antivirus_status |-> input.antivirus_status,
   firewall_enabled |-> input.firewall_enabled,
   vulnerability_ids |-> <<>>, risk_score |-> 0]

\* [vid for vid in asset.vulnerability_ids if vid in self.vulnerabilities]
ResolvableIds(asset) ==
  SelectSeq(asset.vulnerability_ids, LAMBDA vid : vid \in 1..Len(vulnerabilities))

\* A variant that feeds the stored score back into the exposure component.
ExposureRiskWithFeedback(asset) ==
  Min((IF asset.exposed_to_internet THEN 30 ELSE 0) * Unit + asset.risk_score \div 10,
      Hundred)

_calculate_exposure_risk(asset) ==
  LET internet == IF asset.exposed_to_internet THEN 30 ELSE 0
      sensitive == IF asset.contains_sensitive_data THEN 25 ELSE 0
      patch == CASE asset.patch_level = "Current" -> 0
                 [] asset.patch_level = "Outdated" -> 15
                 [] asset.patch_level = "Critical" -> 30
                 [] asset.patch_level = "Unknown" -> 20
                 [] OTHER -> 20
      av == CASE asset.antivirus_status = "Active" -> 0
              [] asset.antivirus_status = "Outdated" -> 10
              [] asset.antivirus_status = "Inactive" -> 20
              [] asset.antivirus_status = "Unknown" -> 15
              [] OTHER -> 15
      firewall == IF asset.firewall_enabled THEN 0 ELSE 15
  IN  Min((internet + sensitive + patch + av + firewall) * Unit, Hundred)

\* _calculate_threat_factor: 1.0 + the highest threat score, as a multiplier.
_calculate_threat_factor(vids) ==
  LET threat_scores == {threat_intel[vulnerabilities[vids[i]].cve_id] :
                          i \in {j \in 1..Len(vids) : HasThreatIntel(vulnerabilities[vids[j]])}}
  IN  IF vids = <<>> \/ threat_scores = {} THEN 10
      ELSE 10 + (CHOOSE t \in threat_scores : \A u \in threat_scores : u <= t)

Recommendation(msg, n) == [msg |-> msg, n |-> n]

\* A variant of the truncation that keeps the last five.
LastRecommendations(recommendations) ==
  SubSeq(recommendations, Max(1, Len(recommendations) - 4), Len(recommendations))

\* recommendations[:5]
TopRecommendations(recommendations) ==
  SubSeq(recommendations, 1, Min(5, Len(recommendations)))

_generate_recommendations(asset, vids) ==
  LET vulns == [i \in 1..Len(vids) |-> vulnerabilities[vids[i]]]
      critical_vulns == Count(vulns, LAMBDA v : v.severity = "Critical")
      high_vulns == Count(vulns, LAMBDA v : v.severity = "High")
      exploit_vulns == Count(vulns, LAMBDA v : v.exploit_public)
      recommendations ==
           (IF critical_vulns > 0
            THEN <<Recommendation("URGENT: Patch critical vulnerabilities", critical_vulns)>>
            ELSE <<>>)
        \o (IF high_vulns > 0
            THEN <<Recommendation("Prioritize patching high-severity", high_vulns)>>
            ELSE <<>>)
        \o (IF exploit_vulns > 0
            THEN <<Recommendation("Address public exploits", exploit_vulns)>>
            ELSE <<>>)
        \o (IF asset.exposed_to_internet
            THEN <<Recommendation("Consider reducing internet exposure", 0)>>
            ELSE <<>>)
        \o (IF asset.patch_level \in {"Outdated", "Critical"}
            THEN <<Recommendation("Update system patches", 0)>>
            ELSE <<>>)
        \o (IF asset.antivirus_status # "Active"
            THEN <<Recommendation("Ensure antivirus is active", 0)>>
            ELSE <<>>)
        \o (IF ~asset.firewall_enabled
            THEN <<Recommendation("Enable host-based firewall", 0)>>
            ELSE <<>>)
  IN  TopRecommendations(recommendations)

NoVulnerabilitiesResult(id) ==
  [asset_id |-> id, total_risk_score |-> 0, vulnerability_risk |-> 0,
   exposure_risk |-> 0, criticality_multiplier |-> 10,
   threat_intelligence_factor |-> 10, contributing_vulnerabilities |-> <<>>,
   risk_factors |-> <<>>,
   recommendations |-> <<Recommendation("No vulnerabilities detected", 0)>>]

\* The weighted vulnerability component: the top score weighs 0.6, the
\* others share 0.4.
VulnerabilityRisk(vuln_scores) ==
  LET n == Len(vuln_scores)
      top == MaxSeq(vuln_scores)
  IN  IF n = 1 THEN vuln_scores[1]
      ELSE (6 * top * (n - 1) + 4 * (SumSeq(vuln_scores) - top)) \div (10 * (n - 1))

\* A variant that reports the asset's ids unfiltered.
UnfilteredVulnerabilities(asset, asset_vulns) == asset.vulnerability_ids

\* [v.id for v in asset_vulns]
ContributingVulnerabilities(asset, asset_vulns) == asset_vulns

\* A variant that applies the criticality multiplier once.
TotalRiskSingleCriticality(vulnerability_risk, exposure_risk, criticality_mult, threat_factor) ==
  Min((vulnerability_risk * 35 + exposure_risk * 10
         + vulnerability_risk * criticality_mult * 2
         + vulnerability_risk * threat_factor) \div 75,
      Hundred)

\* total_risk: the four weighted terms (times 100) over the sum 0.75 of
\* their weights, times the criticality multiplier again, capped.
TotalRisk(vulnerability_risk, exposure_risk, criticality_mult, threat_factor) ==
  Min((((vulnerability_risk * 35 + exposure_risk * 10
           + vulnerability_risk * criticality_mult * 2
           + vulnerability_risk * threat_factor) \div 75) * criticality_mult) \div 10,
      Hundred)

\* calculate_asset_risk(asset): the RiskCalculationResult it returns for
\* the asset stored under id.
calculate_asset_risk(id, asset) ==
  LET asset_vulns == ResolvableIds(asset)
      vuln_scores == [i \in 1..Len(asset_vulns) |->
                        calculate_vulnerability_risk(vulnerabilities[asset_vulns[i]])]
      vulnerability_risk == VulnerabilityRisk(vuln_scores)
      exposure_risk == _calculate_exposure_risk(asset)
      criticality_mult == CRITICALITY_MULTIPLIERS(asset.criticality)
      threat_factor == _calculate_threat_factor(asset_vulns)
      total_risk == TotalRisk(vulnerability_risk, exposure_risk,
                              criticality_mult, threat_factor)
      vulns == [i \in 1..Len(asset_vulns) |-> vulnerabilities[asset_vulns[i]]]
  IN  IF asset_vulns = <<>> THEN NoVulnerabilitiesResult(id)
      ELSE [asset_id |-> id, total_risk_score |-> total_risk,
            vulnerability_risk |-> vulnerability_risk,
            exposure_risk |-> exposure_risk,
            criticality_multiplier |-> criticality_mult,
            threat_intelligence_factor |-> threat_factor,
            contributing_vulnerabilities |->
              ContributingVulnerabilities(asset, asset_vulns),
            risk_factors |->
              <<Round2(vulnerability_risk), Round2(exposure_risk),
                criticality_mult, threat_factor, Len(asset_vulns),
                Count(vulns, LAMBDA v : v.severity = "Critical"),
                Count(vulns, LAMBDA v : v.severity = "High")>>,
            recommendations |-> _generate_recommendations(asset, asset_vulns)]

\* A variant that never stores the score.
AssetAfterRiskNoWrite(id, asset) == asset

\* The asset after calculate_asset_risk(asset): asset.risk_score is
\* assigned only past the early return of the no-vulnerabilities path.
AssetAfterRisk(id, asset) ==
  IF ResolvableIds(asset) = <<>> THEN asset
  ELSE [asset EXCEPT !.risk_score = calculate_asset_risk(id, asset).total_risk_score]

\* ---------------------------------------------------------------- correlator
ScenarioId(prefix, asset_id, location) ==
  [prefix |-> prefix, asset |-> asset_id, location |-> location]

CriticalVulns(asset) ==
  SelectSeq(ResolvableIds(asset),
            LAMBDA vid : vulnerabilities[vid].severity = "Critical")

_create_exploitation_scenario(id, asset, vuln_ids) ==
  LET risk_calc == calculate_asset_risk(id, asset)
  IN  [id |-> ScenarioId("rs_exploit", id, None),
       category |-> "Multi-Stage Attack",
       severity |-> "Critical", likelihood |-> "Likely",
       impact |-> "Catastrophic",
       affected_asset_ids |-> <<id>>,
       correlated_vulnerability_ids |-> vuln_ids,
       business_risk_score |-> Min((risk_calc.total_risk_score * 12) \div 10, Hundred),
       detection_coverage |-> 60 * Unit]

_create_internet_breach_scenario(id, asset, vuln_ids) ==
  [id |-> ScenarioId("rs_breach", id, None),
   category |-> "Data Breach & Exfiltration",
   severity |-> "Critical", likelihood |-> "Certain",
   impact |-> "Catastrophic",
   affected_asset_ids |-> <<id>>,
   correlated_vulnerability_ids |-> vuln_ids,
   business_risk_score |-> 95 * Unit,
   detection_coverage |-> 45 * Unit]

\* A variant whose chain threshold is off by one.
AssetScenariosOffByOne(id, asset) ==
  LET critical_vulns == CriticalVulns(asset)
  IN  IF ResolvableIds(asset) = <<>> THEN <<>>
      ELSE (IF Len(critical_vulns) > 2
            THEN <<_create_exploitation_scenario(id, asset, critical_vulns)>>
            ELSE <<>>)
        \o (IF asset.exposed_to_internet /\ critical_vulns # <<>>
            THEN <<_create_internet_breach_scenario(id, asset, critical_vulns)>>
            ELSE <<>>)

\* A variant that tests for the breach pattern only when there is no chain.
AssetScenariosEither(id, asset) ==
  LET critical_vulns == CriticalVulns(asset)
  IN  IF ResolvableIds(asset) = <<>> THEN <<>>
      ELSE IF Len(critical_vulns) >= 2
           THEN <<_create_exploitation_scenario(id, asset, critical_vulns)>>
           ELSE IF asset.exposed_to_internet /\ critical_vulns # <<>>
                THEN <<_create_internet_breach_scenario(id, asset, critical_vulns)>>
                ELSE <<>>

\* One iteration of the loop of generate_risk_scenarios over the assets:
\* the scenarios it appends for the asset stored under id.
AssetScenarios(id, asset) ==
  LET critical_vulns == CriticalVulns(asset)
  IN  IF ResolvableIds(asset) = <<>> THEN <<>>
      ELSE (IF Len(critical_vulns) >= 2
            THEN <<_create_exploitation_scenario(id, asset, critical_vulns)>>
            ELSE <<>>)
        \o (IF asset.exposed_to_internet /\ critical_vulns # <<>>
            THEN <<_create_internet_breach_scenario(id, asset, critical_vulns)>>
            ELSE <<>>)

\* The asset after that iteration: _create_exploitation_scenario calls
\* calculate_asset_risk, which assigns asset.risk_score.
AssetAfterScenarios(id, asset) ==
  IF Len(CriticalVulns(asset)) >= 2 THEN AssetAfterRisk(id, asset) ELSE asset

LocationOf(asset) == IF asset.location = None THEN "Unknown" ELSE asset.location

\* The keys of location_groups, in order of first insertion.
RECURSIVE LocationKeys(_, _)
LocationKeys(as, i) ==
  IF i = 0 THEN <<>>
  ELSE LET before == LocationKeys(as, i - 1)
       IN  IF LocationOf(as[i]) \in Range(before) THEN before
           ELSE Append(before, LocationOf(as[i]))

\* A variant that keeps the whole group.
WholeGroup(as, group) == group

\* [a for a in assets if a.risk_score > 70]
HighRiskAssets(as, group) ==
  SelectSeq(group, LAMBDA i : as[i].risk_score > 70 * Unit)

_identify_lateral_movement(as) ==
  LET keys == LocationKeys(as, Len(as))
      ids == [i \in 1..Len(as) |-> i]
      group(location) == SelectSeq(ids, LAMBDA i : LocationOf(as[i]) = location)
      high_risk_assets(location) == HighRiskAssets(as, group(location))
      scenario(location) ==
        [id |-> ScenarioId("rs_lateral", 0, location),
         category |-> "Unauthorized Lateral Movement",
         severity |-> "High", likelihood |-> "Possible",
         impact |-> "Significant",
         affected_asset_ids |-> high_risk_assets(location),
         correlated_vulnerability_ids |-> <<>>,
         business_risk_score |-> 75 * Unit,
         detection_coverage |-> 55 * Unit]
      RECURSIVE scan(_)
      scan(k) ==
        IF k > Len(keys) THEN <<>>
        ELSE (IF Len(group(keys[k])) >= 2 /\ Len(high_risk_assets(keys[k])) >= 2
              THEN <<scenario(keys[k])>> ELSE <<>>) \o scan(k + 1)
  IN  scan(1)

RECURSIVE ChainScenarios(_, _)
ChainScenarios(as, i) ==
  IF i = 0 THEN <<>>
  ELSE ChainScenarios(as, i - 1) \o AssetScenarios(i, as[i])

AssetsAfterScenarios(as) == [i \in 1..Len(as) |-> AssetAfterScenarios(i, as[i])]

\* The list generate_risk_scenarios builds from the assets as.
generate_risk_scenarios(as) ==
  ChainScenarios(as, Len(as)) \o _identify_lateral_movement(AssetsAfterScenarios(as))

\* ---------------------------------------------------------------- summary
\* get_risk_summary over the assets as and the stored scenario list.
get_risk_summary(as, scenarios) ==
  LET risk_scores == [i \in 1..Len(as) |-> as[i].risk_score]
  IN  IF as = <<>>
      THEN [total_assets |-> 0, total_vulnerabilities |-> 0,
            average_risk_score |-> 0, critical_assets |-> 0,
            high_risk_assets |-> 0]
      ELSE [total_assets |-> Len(as),
            total_vulnerabilities |-> Len(vulnerabilities),
            average_risk_score |-> SumSeq(risk_scores) \div Len(risk_scores),
            critical_assets |-> Count(risk_scores, LAMBDA x : x >= 90 * Unit),
            high_risk_assets |-> Count(risk_scores, LAMBDA x : x >= 70 * Unit),
            medium_risk_assets |->
              Count(risk_scores, LAMBDA x : 40 * Unit <= x /\ x < 70 * Unit),
            low_risk_assets |-> Count(risk_scores, LAMBDA x : x < 40 * Unit),
            risk_scenarios |-> Len(scenarios)]

\* ---------------------------------------------------------------- engine state
NoReturn == [op |-> "none"]
NoLocals == [i |-> 0, results |-> <<>>, scenarios |-> <<>>, lateral |-> <<>>]
NoUltraLocals == [entry |-> NoReturn, tmp |-> <<>>]

\* UltraPreciseRiskEngine.__init__
UltraInit ==
  /\ prediction_history = <<>>
  /\ clock = 0
  /\ calls_log = <<>>
  /\ uret = NoReturn
  /\ upc = [t \in Threads |-> "idle"]
  /\ ulocal = [t \in Threads |-> NoUltraLocals]

Init ==
  /\ assets = <<>>
  /\ vulnerabilities = <<>>
  /\ threat_intel = [c \in CveIds |-> -1]
  /\ risk_scenarios = <<>>
  /\ ret = NoReturn
  /\ ops = 0
  /\ pc = [t \in Callers |-> "idle"]
  /\ local = [t \in Callers |-> NoLocals]
  /\ out = [t \in Callers |-> NoReturn]
  /\ UltraInit

\* add_asset: self.assets[asset.id] = asset, a new key or an existing one.
Ingest ==
  /\ ops < MaxOps
  /\ ops' = ops + 1
  /\ ret' = NoReturn

AddAsset(id, input) ==
  /\ Ingest
  /\ id \in 1..(Len(assets) + 1)
  /\ assets' = IF id > Len(assets) THEN Append(assets, NewAsset(input))
               ELSE [assets EXCEPT ![id] = NewAsset(input)]
  /\ UNCHANGED <<vulnerabilities, threat_intel, risk_scenarios>>

\* add_vulnerability: self.vulnerabilities[vulnerability.id] = vulnerability.
AddVulnerability(id, input) ==
  /\ Ingest
  /\ id \in 1..(Len(vulnerabilities) + 1)
  /\ vulnerabilities' = IF id > Len(vulnerabilities)
                        THEN Append(vulnerabilities, input)
                        ELSE [vulnerabilities EXCEPT ![id] = input]
  /\ UNCHANGED <<assets, threat_intel, risk_scenarios>>

\* add_threat_intelligence: the score is clamped to [0.0, 1.0].
AddThreatIntelligence(cve_id, threat_score) ==
  /\ Ingest
  /\ threat_intel' = [threat_intel EXCEPT ![cve_id] = Min(Max(threat_score, 0), 10)]
  /\ UNCHANGED <<assets, vulnerabilities, risk_scenarios>>

\* asset.vulnerability_ids.append(vuln_id): the caller links a vulnerability
\* id to a stored asset; the id may be dangling or already in the list.
LinkVulnerability(id, vuln_id) ==
  /\ Ingest
  /\ id \in 1..Len(assets)
  /\ vuln_id \in 1..(Len(vulnerabilities) + 1)
  /\ assets' = [assets EXCEPT ![id].vulnerability_ids = Append(@, vuln_id)]
  /\ UNCHANGED <<vulnerabilities, threat_intel, risk_scenarios>>

CalculateAssetRisk(id) ==
  /\ id \in 1..Len(assets)
  /\ assets' = [assets EXCEPT ![id] = AssetAfterRisk(id, assets[id])]
  /\ ret' = [op |-> "calculate_asset_risk", asset |-> id,
             value |-> calculate_asset_risk(id, assets[id]),
             repeat |-> (ret.op = "calculate_asset_risk" /\ ret.asset = id)]
  /\ UNCHANGED <<ops, vulnerabilities, threat_intel, risk_scenarios>>

\* sorted(results, key=total_risk_score, reverse=True): stable.
RECURSIVE SortedByScore(_)
SortedByScore(results) ==
  IF results = <<>> THEN <<>>
  ELSE LET top == MaxSeq([i \in 1..Len(results) |-> results[i].total_risk_score])
       IN  SelectSeq(results, LAMBDA r : r.total_risk_score = top)
           \o SortedByScore(SelectSeq(results, LAMBDA r : r.total_risk_score # top))

\* calculate_all_assets: the assets after the loop, and the list returned.
AssetsAfterAll(as) == [i \in 1..Len(as) |-> AssetAfterRisk(i, as[i])]

calculate_all_assets(as) ==
  SortedByScore([i \in 1..Len(as) |-> calculate_asset_risk(i, as[i])])

CalculateAllAssets ==
  /\ assets' = AssetsAfterAll(assets)
  /\ ret' = [op |-> "calculate_all_assets", value |-> calculate_all_assets(assets)]
  /\ UNCHANGED <<ops, vulnerabilities, threat_intel, risk_scenarios>>

\* A variant that extends the stored list instead of replacing it.
MergedScenarios(old, scenarios) == old \o scenarios

\* self.risk_scenarios = scenarios
StoredScenarios(old, scenarios) == scenarios

GenerateRiskScenarios ==
  /\ assets' = AssetsAfterScenarios(assets)
  /\ risk_scenarios' = StoredScenarios(risk_scenarios, generate_risk_scenarios(assets))
  /\ ret' = [op |-> "generate_risk_scenarios",
             value |-> generate_risk_scenarios(assets),
             repeat |-> (ret.op = "generate_risk_scenarios")]
  /\ UNCHANGED <<ops, vulnerabilities, threat_intel>>

GetRiskSummary ==
  /\ ret' = [op |-> "get_risk_summary",
             value |-> get_risk_summary(assets, risk_scenarios)]
  /\ UNCHANGED <<ops, assets, vulnerabilities, threat_intel, risk_scenarios>>

EngineNext ==
  \/ \E id \in 1..MaxOps, input \in AssetInputs : AddAsset(id, input)
  \/ \E id \in 1..MaxOps, input \in VulnInputs : AddVulnerability(id, input)
  \/ \E cve_id \in CveIds, threat_score \in ThreatInputs :
       AddThreatIntelligence(cve_id, threat_score)
  \/ \E id \in 1..MaxOps, vuln_id \in 1..MaxOps : LinkVulnerability(id, vuln_id)
  \/ \E id \in 1..MaxOps : CalculateAssetRisk(id)
  \/ CalculateAllAssets
  \/ GenerateRiskScenarios
  \/ GetRiskSummary

Next == EngineNext /\ UNCHANGED <<cycleVars, ultraVars>>

Spec == Init /\ [][Next]_vars

\* ---------------------------------------------------------------- scorer alone
\* calculate_vulnerability_risk applied to the vulnerabilities of an engine
\* that holds a vulnerability and a copy of it with another CVSS score.
Severities == {"Critical", "High", "Medium", "Low", "Informational"}
AttackVectors == {"Network", "Adjacent", "Local", "Physical", None}

\* CVSS scores in [0, 10], in tenths.
CvssScores == {0, 33, 75, 98, 100}

\* The values add_threat_intelligence leaves in threat_intel (clamped to
\* [0, 1], in tenths), and -1 for no entry.
ThreatStored == {-1} \cup {Min(Max(t, 0), 10) : t \in ThreatInputs}

ScorerVulns ==
  [severity : Severities, cvss_score : CvssScores,
   exploit_available : BOOLEAN, exploit_public : BOOLEAN,
   patch_available : BOOLEAN, attack_vector : AttackVectors,
   cve_id : CveIds \cup {None}]

ScorerInit ==
  /\ \E v \in ScorerVulns, c \in CvssScores :
       vulnerabilities = <<v, [v EXCEPT !.cvss_score = c]>>
  /\ threat_intel \in [CveIds -> ThreatStored]
  /\ assets = <<>>
  /\ risk_scenarios = <<>>
  /\ ret = NoReturn
  /\ ops = 0
  /\ pc = [t \in Callers |-> "idle"]
  /\ local = [t \in Callers |-> NoLocals]
  /\ out = [t \in Callers |-> NoReturn]
  /\ UltraInit

\* engine.calculate_vulnerability_risk(engine.vulnerabilities[id])
ScoreVulnerability(id) ==
  /\ id \in 1..Len(vulnerabilities)
  /\ ret' = [op |-> "calculate_vulnerability_risk", vuln |-> id,
             value |-> calculate_vulnerability_risk(vulnerabilities[id])]
  /\ UNCHANGED <<assets, vulnerabilities, threat_intel, risk_scenarios, ops>>

ScorerNext ==
  /\ \E id \in 1..2 : ScoreVulnerability(id)
  /\ UNCHANGED <<cycleVars, ultraVars>>

SpecScorer == ScorerInit /\ [][ScorerNext]_vars

\* ---------------------------------------------------------------- aggregator alone
\* calculate_asset_risk and generate_risk_scenarios on an engine that holds
\* one asset, never scored, and up to MaxAggVulns vulnerabilities, the
\* asset being linked to all of them, to all of them and a dangling id, or
\* to a dangling id only.
AggCveIds == {"CVE-1", "CVE-2"}

AggVulnInputs ==
  VulnInputs \cup
  { [severity |-> "Critical", cvss_score |-> 100, exploit_available |-> FALSE,
     exploit_public |-> FALSE, patch_available |-> TRUE,
     attack_vector |-> "Local", cve_id |-> "CVE-2"],
    [severity |-> "Medium", cvss_score |-> 50, exploit_available |-> FALSE,
     exploit_public |-> TRUE, patch_available |-> FALSE,
     attack_vector |-> "Adjacent", cve_id |-> "CVE-2"] }

AggAssetInputs ==
  AssetInputs \cup
  { [criticality |-> "High", location |-> "dc1",
     exposed_to_internet |-> TRUE, contains_sensitive_data |-> TRUE,
     patch_level |-> "Critical", antivirus_status |-> "Inactive",
     firewall_enabled |-> FALSE],
    [criticality |-> "Low", location |-> "dc2",
     exposed_to_internet |-> FALSE, contains_sensitive_data |-> FALSE,
     patch_level |-> "Current", antivirus_status |-> "Active",
     firewall_enabled |-> TRUE] }

AggInit ==
  /\ \E n \in 1..MaxAggVulns :
       /\ vulnerabilities \in [1..n -> AggVulnInputs]
       /\ \E input \in AggAssetInputs,
             links \in {[i \in 1..n |-> i], [i \in 1..(n + 1) |-> i], <<n + 1>>} :
            assets = <<[NewAsset(input) EXCEPT !.vulnerability_ids = links]>>
  /\ threat_intel \in [AggCveIds -> ThreatStored]
  /\ risk_scenarios = <<>>
  /\ ret = NoReturn
  /\ ops = 0
  /\ pc = [t \in Callers |-> "idle"]
  /\ local = [t \in Callers |-> NoLocals]
  /\ out = [t \in Callers |-> NoReturn]
  /\ UltraInit

AggNext ==
  /\ \/ \E id \in 1..Len(assets) : CalculateAssetRisk(id)
     \/ GenerateRiskScenarios
  /\ UNCHANGED <<cycleVars, ultraVars>>

SpecAggregator == AggInit /\ [][AggNext]_vars

\* ---------------------------------------------------------------- aggregator, in floats
\* The scores of risk_engine.py are Python floats: IEEE 754 binary64 numbers,
\* every operation rounded to nearest, ties to even.  The fixed-point
\* definitions above round down; where a question is one of rounding the
\* arithmetic below computes what the machine computes.  A non-negative
\* float is [m, e], standing for m * 2^e, m being a natural number of at
\* most FloatPrecision bits kept as a sequence of limbs, least significant
\* first, without a leading zero limb (<<>> is zero).  Scores between 0 and
\* a few hundred neither overflow nor reach the subnormal range.
FloatPrecision == 53

LimbBits == 15

Limb == 2^LimbBits

RECURSIVE BigTrim(_)
BigTrim(a) ==
    IF a = <<>> \/ a[Len(a)] # 0 THEN a ELSE BigTrim(SubSeq(a, 1, Len(a) - 1))

RECURSIVE BigFromNat(_)
BigFromNat(n) == IF n = 0 THEN <<>> ELSE <<n % Limb>> \o BigFromNat(n \div Limb)

RECURSIVE BigAddCarry(_, _, _)
BigAddCarry(a, b, carry) ==
    IF a = <<>> /\ b = <<>>
    THEN BigFromNat(carry)
    ELSE LET x == IF a = <<>> THEN 0 ELSE Head(a)
             y == IF b = <<>> THEN 0 ELSE Head(b)
             t == x + y + carry
         IN  <<t % Limb>>
             \o BigAddCarry(IF a = <<>> THEN a ELSE Tail(a),
                            IF b = <<>> THEN b ELSE Tail(b), t \div Limb)

BigAdd(a, b) == BigAddCarry(a, b, 0)

RECURSIVE BigMulSmallCarry(_, _, _)
BigMulSmallCarry(a, k, carry) ==
    IF a = <<>>
    THEN BigFromNat(carry)
    ELSE LET t == Head(a) * k + carry
         IN  <<t % Limb>> \o BigMulSmallCarry(Tail(a), k, t \div Limb)

BigMulSmall(a, k) == BigTrim(BigMulSmallCarry(a, k, 0))

RECURSIVE BigMul(_, _)
BigMul(a, b) ==
    IF a = <<>> \/ b = <<>>
    THEN <<>>
    ELSE BigTrim(BigAdd(BigMulSmall(a, Head(b)), <<0>> \o BigMul(a, Tail(b))))

RECURSIVE BigDivSmall(_, _, _)
BigDivSmall(a, k, rem) ==
    IF a = <<>>
    THEN [q |-> <<>>, r |-> rem]
    ELSE LET t    == rem * Limb + a[Len(a)]
             rest == BigDivSmall(SubSeq(a, 1, Len(a) - 1), k, t % k)
         IN  [q |-> rest.q \o <<t \div k>>, r |-> rest.r]

RECURSIVE BitLen(_)
BitLen(n) == IF n = 0 THEN 0 ELSE 1 + BitLen(n \div 2)

BigBitLen(a) ==
    IF a = <<>> THEN 0 ELSE LimbBits * (Len(a) - 1) + BitLen(a[Len(a)])

BigShiftLeft(a, s) ==
    IF a = <<>>
    THEN <<>>
    ELSE [i \in 1..(s \div LimbBits) |-> 0] \o BigMulSmall(a, 2^(s % LimbBits))

BigShiftRight(a, s) ==
    IF Len(a) <= s \div LimbBits
    THEN <<>>
    ELSE BigTrim(BigDivSmall(SubSeq(a, s \div LimbBits + 1, Len(a)),
                             2^(s % LimbBits), 0).q)

BigBit(a, i) ==
    IF i \div LimbBits + 1 > Len(a)
    THEN 0
    ELSE (a[i \div LimbBits + 1] \div 2^(i % LimbBits)) % 2

RECURSIVE BigLess(_, _)
BigLess(a, b) ==
    IF Len(a) # Len(b)
    THEN Len(a) < Len(b)
    ELSE IF a = <<>>
         THEN FALSE
         ELSE IF a[Len(a)] # b[Len(b)]
              THEN a[Len(a)] < b[Len(b)]
              ELSE BigLess(SubSeq(a, 1, Len(a) - 1), SubSeq(b, 1, Len(b) - 1))

FloatZero == [m |-> <<>>, e |-> 0]

\* The float nearest to m * 2^e, ties to even.
RoundToFloat(m, e) ==
    LET s == BigBitLen(m) - FloatPrecision
    IN  IF m = <<>>
        THEN FloatZero
        ELSE IF s <= 0
             THEN [m |-> m, e |-> e]
             ELSE LET q      == BigShiftRight(m, s)
                      half   == BigBit(m, s - 1) = 1
                      sticky == BigShiftLeft(BigShiftRight(m, s - 1), s - 1) # m
                      up     == half /\ (sticky \/ BigBit(q, 0) = 1)
                  IN  [m |-> IF up THEN BigAdd(q, <<1>>) ELSE q, e |-> e + s]

FloatFromNat(n) == [m |-> BigFromNat(n), e |-> 0]

FloatMul(a, b) == RoundToFloat(BigMul(a.m, b.m), a.e + b.e)

FloatAdd(a, b) ==
    IF a.m = <<>>
    THEN b
    ELSE IF b.m = <<>>
         THEN a
         ELSE LET e == Min(a.e, b.e)
              IN  RoundToFloat(BigAdd(BigShiftLeft(a.m, a.e - e),
                                       BigShiftLeft(b.m, b.e - e)), e)

\* a / k for a natural number k below Limb: the quotient is taken with
\* GuardBits more bits than the result keeps and a last bit that records a
\* remainder, so that the rounding sees the exact quotient.
GuardBits == 5 * LimbBits

FloatDivNat(a, k) ==
    LET d == BigDivSmall(BigShiftLeft(a.m, GuardBits), k, 0)
    IN  RoundToFloat(BigAdd(BigShiftLeft(BigTrim(d.q), 1),
                             IF d.r = 0 THEN <<>> ELSE <<1>>),
                      a.e - GuardBits - 1)

FloatLess(a, b) ==
    LET e == Min(a.e, b.e)
    IN  BigLess(BigShiftLeft(a.m, a.e - e), BigShiftLeft(b.m, b.e - e))

RECURSIVE FloatSum(_, _)
FloatSum(s, acc) ==
    IF s = <<>> THEN acc ELSE FloatSum(Tail(s), FloatAdd(acc, Head(s)))

\* A decimal literal with one decimal place, such as 0.6 or vuln.cvss_score
\* 9.8, given in tenths: the float nearest to it.
FloatTenths(t) == FloatDivNat(FloatFromNat(t), 10)

\* min(a, b) of two floats: b when b < a, else a.
FloatMin(a, b) == IF FloatLess(b, a) THEN b ELSE a

\* calculate_vulnerability_risk in floats, the product taken left to right.
calculate_vulnerability_risk_float(vuln) ==
  LET base_score == FloatMul(FloatDivNat(FloatTenths(vuln.cvss_score), 10),
                             FloatFromNat(100))
      severity_mult == FloatTenths(CVSS_MULTIPLIERS(vuln.severity))
      exploit_factor == FloatTenths(ExploitFactor(vuln))
      patch_factor == FloatTenths(IF vuln.patch_available THEN 7 ELSE 10)
      vector_mult == FloatTenths(CASE vuln.attack_vector = "Network" -> 13
                                   [] vuln.attack_vector = "Adjacent" -> 11
                                   [] vuln.attack_vector = "Local" -> 9
                                   [] vuln.attack_vector = "Physical" -> 6
                                   [] OTHER -> 10)
      threat_mult == IF HasThreatIntel(vuln)
                     THEN FloatAdd(FloatFromNat(1),
                                   FloatMul(FloatTenths(threat_intel[vuln.cve_id]),
                                            FloatTenths(5)))
                     ELSE FloatFromNat(1)
      risk_score ==
        FloatMul(FloatMul(FloatMul(FloatMul(FloatMul(base_score, severity_mult),
                                            exploit_factor),
                                   patch_factor),
                          vector_mult),
                 threat_mult)
  IN  FloatMin(risk_score, FloatFromNat(100))

\* sorted(vuln_scores, reverse=True)
RECURSIVE SortedDescending(_)
SortedDescending(scores) ==
  IF scores = <<>> THEN <<>>
  ELSE LET k == CHOOSE i \in 1..Len(scores) :
                  \A j \in 1..Len(scores) : ~FloatLess(scores[i], scores[j])
       IN  <<scores[k]>>
           \o SortedDescending(SubSeq(scores, 1, k - 1)
                               \o SubSeq(scores, k + 1, Len(scores)))

\* vulnerability_risk of calculate_asset_risk in floats, from the sorted
\* scores: the top score times 0.6, plus sum(score * remaining_weight),
\* which the interpreter adds up from 0 in list order.
vulnerability_risk_float(vuln_scores_sorted) ==
  IF Len(vuln_scores_sorted) = 1 THEN vuln_scores_sorted[1]
  ELSE LET top_vuln_weight == FloatTenths(6)
           remaining_weight == FloatDivNat(FloatTenths(4), Len(vuln_scores_sorted) - 1)
       IN  FloatAdd(FloatMul(vuln_scores_sorted[1], top_vuln_weight),
                    FloatSum([i \in 1..(Len(vuln_scores_sorted) - 1) |->
                                FloatMul(vuln_scores_sorted[i + 1], remaining_weight)],
                             FloatZero))

\* The floats of calculate_asset_risk(asset): the sorted scores of the
\* resolvable vulnerabilities and the vulnerability_risk of the result
\* (0.0 on the early return).
AssetRiskFloats(asset) ==
  LET asset_vulns == ResolvableIds(asset)
      vuln_scores_sorted ==
        SortedDescending([i \in 1..Len(asset_vulns) |->
          calculate_vulnerability_risk_float(vulnerabilities[asset_vulns[i]])])
  IN  [vuln_scores |-> vuln_scores_sorted,
       vulnerability_risk |-> IF asset_vulns = <<>> THEN FloatZero
                              ELSE vulnerability_risk_float(vuln_scores_sorted)]

\* Vulnerabilities of the engine in the float runs: those of the ingestion
\* runs, a patched High one without CVE id and a patched Critical one.
FloatVulnInputs ==
  VulnInputs \cup
  { [severity |-> "High", cvss_score |-> 75, exploit_available |-> FALSE,
     exploit_public |-> TRUE, patch_available |-> TRUE,
     attack_vector |-> None, cve_id |-> None],
    [severity |-> "Critical", cvss_score |-> 100, exploit_available |-> FALSE,
     exploit_public |-> FALSE, patch_available |-> TRUE,
     attack_vector |-> "Local", cve_id |-> "CVE-1"] }

\* An engine that holds one asset, never scored, linked to each of its n
\* vulnerabilities: one vulnerability followed by n - 1 copies of another
\* (or of itself).
FloatInit ==
  /\ \E n \in 1..MaxFloatVulns, v \in FloatVulnInputs, w \in FloatVulnInputs :
       vulnerabilities = [i \in 1..n |-> IF i = 1 THEN v ELSE w]
  /\ \E input \in AssetInputs :
       assets = <<[NewAsset(input) EXCEPT !.vulnerability_ids =
                     [i \in 1..Len(vulnerabilities) |-> i]]>>
  /\ threat_intel \in [CveIds -> ThreatStored]
  /\ risk_scenarios = <<>>
  /\ ret = NoReturn
  /\ ops = 0
  /\ pc = [t \in Callers |-> "idle"]
  /\ local = [t \in Callers |-> NoLocals]
  /\ out = [t \in Callers |-> NoReturn]
  /\ UltraInit

\* engine.calculate_asset_risk(engine.assets[id]), the floats of the call
\* kept beside the result.
CalculateAssetRiskFloat(id) ==
  /\ id \in 1..Len(assets)
  /\ assets' = [assets EXCEPT ![id] = AssetAfterRisk(id, assets[id])]
  /\ \E floats \in {AssetRiskFloats(assets[id])} :
       ret' = [op |-> "calculate_asset_risk", asset |-> id,
               value |-> calculate_asset_risk(id, assets[id]),
               repeat |-> (ret.op = "calculate_asset_risk" /\ ret.asset = id),
               floats |-> floats]
  /\ UNCHANGED <<ops, vulnerabilities, threat_intel, risk_scenarios>>

FloatNext ==
  /\ \E id \in 1..Len(assets) : CalculateAssetRiskFloat(id)
  /\ UNCHANGED <<cycleVars, ultraVars>>

SpecFloat == FloatInit /\ [][FloatNext]_vars

\* ---------------------------------------------------------------- full cycle
\* RiskPlatformOrchestrator.calculate_all_risks, run by several callers on
\* one orchestrator, one step per asset scored, one for the correlation
\* pass and one for the summary.  The code takes no lock.

\* The engines the cycles run on: up to MaxCycleAssets assets, never scored,
\* each linked to none, to a High or to two Critical stored vulnerabilities.
CycleVulnerabilities ==
  LET critical == CHOOSE v \in VulnInputs : v.severity = "Critical"
      high == CHOOSE v \in VulnInputs : v.severity = "High"
  IN  <<critical, critical, high>>

CycleLinks == {<<>>, <<3>>, <<1, 2>>}

CycleAssets ==
  UNION { [1..n -> {[NewAsset(input) EXCEPT !.vulnerability_ids = links] :
                      input \in AssetInputs, links \in CycleLinks}] :
          n \in 1..MaxCycleAssets }

CycleInit ==
  /\ assets \in CycleAssets
  /\ vulnerabilities = CycleVulnerabilities
  /\ threat_intel = [c \in CveIds |-> -1]
  /\ risk_scenarios = <<>>
  /\ ret = NoReturn
  /\ ops = 0
  /\ pc = [t \in Callers |-> "idle"]
  /\ local = [t \in Callers |-> NoLocals]
  /\ out = [t \in Callers |-> NoReturn]
  /\ UltraInit

\* A variant of the loop test that stops one asset early.
MoreAssetsButLast(i, as) == i < Len(as)

\* for asset in self.assets.values(): is there an i-th asset to score?
MoreAssets(i, as) == i <= Len(as)

\* The caller enters calculate_all_risks and calculate_all_assets.
EnterCycle(t) ==
  /\ pc[t] = "idle"
  /\ pc' = [pc EXCEPT ![t] = IF MoreAssets(1, assets) THEN "scoring" ELSE "scenarios"]
  /\ local' = [local EXCEPT ![t] = [NoLocals EXCEPT !.i = 1]]
  /\ UNCHANGED <<engineVars, out>>

\* One iteration of the loop of calculate_all_assets.
ScoreAsset(t) ==
  LET i == local[t].i
  IN  /\ pc[t] = "scoring"
      /\ assets' = [assets EXCEPT ![i] = AssetAfterRisk(i, assets[i])]
      /\ local' = [local EXCEPT ![t].i = i + 1,
                                ![t].results = Append(@, calculate_asset_risk(i, assets[i]))]
      /\ pc' = [pc EXCEPT ![t] = IF MoreAssets(i + 1, assets) THEN "scoring"
                                 ELSE "scenarios"]
      /\ UNCHANGED <<vulnerabilities, threat_intel, risk_scenarios, ret, ops, out>>

\* self.risk_engine.generate_risk_scenarios(), in one step; lateral records
\* the risk scores _identify_lateral_movement read.
Correlate(t) ==
  /\ pc[t] = "scenarios"
  /\ assets' = AssetsAfterScenarios(assets)
  /\ risk_scenarios' = StoredScenarios(risk_scenarios, generate_risk_scenarios(assets))
  /\ local' = [local EXCEPT ![t].scenarios = generate_risk_scenarios(assets),
                            ![t].lateral = [i \in 1..Len(assets) |->
                                              AssetsAfterScenarios(assets)[i].risk_score]]
  /\ pc' = [pc EXCEPT ![t] = "summary"]
  /\ UNCHANGED <<vulnerabilities, threat_intel, ret, ops, out>>

\* self.risk_engine.get_risk_summary() and the return of the cycle.
Summarize(t) ==
  /\ pc[t] = "summary"
  /\ out' = [out EXCEPT ![t] =
               [op |-> "calculate_all_risks",
                summary |-> get_risk_summary(assets, risk_scenarios),
                risk_results |-> SortedByScore(local[t].results),
                scenarios |-> local[t].scenarios]]
  /\ pc' = [pc EXCEPT ![t] = "idle"]
  /\ UNCHANGED <<engineVars, local>>

CycleStep ==
  \E t \in Callers :
    \/ EnterCycle(t)
    \/ ScoreAsset(t)
    \/ Correlate(t)
    \/ Summarize(t)

CycleNext == CycleStep /\ UNCHANGED ultraVars

SpecCycles == CycleInit /\ [][CycleNext]_vars

\* ---------------------------------------------------------------- ensemble engine
\* UltraPreciseRiskEngine.  CVSS scores are in tenths; predictions, scores
\* and interval ends in hundredths of a point (100.0 is UltraHundred);
\* agreement, uncertainty and confidence in ten-thousandths (1.0 is
\* UltraOne).  Divisions truncate.
UltraHundred == 100 * 100
UltraOne == 100 * 100

RECURSIVE IsqrtBetween(_, _, _)
IsqrtBetween(n, lo, hi) ==
  IF lo = hi THEN lo
  ELSE LET mid == (lo + hi + 1) \div 2
       IN  IF mid * mid <= n THEN IsqrtBetween(n, mid, hi)
           ELSE IsqrtBetween(n, lo, mid - 1)

\* The integer square root.
Isqrt(n) == IsqrtBetween(n, 0, Min(n, 4 * UltraHundred))

\* np.mean and np.std of a list of predictions.
Mean(ps) == SumSeq(ps) \div Len(ps)
Std(ps) ==
  LET mean == Mean(ps)
  IN  Isqrt(SumSeq([i \in 1..Len(ps) |-> (ps[i] - mean) * (ps[i] - mean)])
            \div Len(ps))

\* The vulnerability objects handed to the ensemble engine.  The engine
\* reads v.actively_exploited, an attribute the Vulnerability class of
\* risk_models.py does not have: has_actively_exploited is FALSE for an
\* instance of that class.  age is the age of published_date in days.
UltraCritical ==
  [cvss_score |-> 98, exploit_available |-> TRUE, exploit_public |-> TRUE,
   patch_available |-> TRUE, has_actively_exploited |-> TRUE,
   actively_exploited |-> TRUE, published |-> TRUE, age |-> 10]

UltraHigh ==
  [cvss_score |-> 75, exploit_available |-> FALSE, exploit_public |-> FALSE,
   patch_available |-> FALSE, has_actively_exploited |-> TRUE,
   actively_exploited |-> FALSE, published |-> TRUE, age |-> 0]

UltraModelClass ==
  [UltraCritical EXCEPT !.has_actively_exploited = FALSE,
                        !.actively_exploited = FALSE]

UltraVulnLists ==
  { <<>>, <<UltraModelClass>>, <<UltraHigh>>, <<UltraCritical, UltraCritical>>,
    <<UltraCritical, [UltraCritical EXCEPT !.cvss_score = 100]>> }

\* historical_data and ground_truth: given is FALSE for None.
NoHistory == [given |-> FALSE, previous_compromises |-> 0]
NoGroundTruth == [given |-> FALSE, value |-> 0]

UltraContexts ==
  { [historical_data |-> NoHistory, ground_truth |-> NoGroundTruth],
    [historical_data |-> [given |-> TRUE, previous_compromises |-> 1],
     ground_truth |-> [given |-> TRUE, value |-> 90 * 100]] }

UltraInputs ==
  { [asset |-> NewAsset(a), vulnerabilities |-> vs,
     historical_data |-> c.historical_data, ground_truth |-> c.ground_truth] :
    a \in AssetInputs, vs \in UltraVulnLists, c \in UltraContexts }

\* Whether reading the attributes _extract_ultra_precise_features reads
\* raises AttributeError.
RaisesAttributeError(vulns) ==
  \E i \in 1..Len(vulns) : ~vulns[i].has_actively_exploited

IsCriticalCvss(v) == v.cvss_score >= 90
IsHighCvss(v) == v.cvss_score >= 70 /\ v.cvss_score < 90
IsMediumCvss(v) == v.cvss_score >= 40 /\ v.cvss_score < 70
IsLowCvss(v) == v.cvss_score < 40
HasExploit(v) == v.exploit_available
HasPublicExploit(v) == v.exploit_public
IsActivelyExploited(v) == v.actively_exploited
HasPatch(v) == v.patch_available
IsPublished(v) == v.published

\* The features the predictions, the interval, the uncertainty and the
\* confidence read.  cvss_sum stands for cvss_mean (the mean is cvss_sum
\* over vuln_count_total), vuln_age_sum for vuln_age_mean, and
\* severity_variance is n * n times np.var of the scores.
_extract_ultra_precise_features(asset, vulns) ==
  LET cvss == [i \in 1..Len(vulns) |-> vulns[i].cvss_score]
      n == Len(vulns)
  IN  [vuln_count_total |-> n,
       vuln_count_critical |-> Count(vulns, IsCriticalCvss),
       vuln_count_high |-> Count(vulns, IsHighCvss),
       vuln_count_medium |-> Count(vulns, IsMediumCvss),
       vuln_count_low |-> Count(vulns, IsLowCvss),
       cvss_sum |-> SumSeq(cvss),
       cvss_max |-> MaxSeq(cvss),
       exploit_available_count |-> Count(vulns, HasExploit),
       exploit_public_count |-> Count(vulns, HasPublicExploit),
       actively_exploited_count |-> Count(vulns, IsActivelyExploited),
       vuln_age_sum |-> SumSeq([i \in 1..n |->
                          IF vulns[i].published THEN vulns[i].age ELSE 0]),
       patch_available_count |-> Count(vulns, HasPatch),
       asset_criticality |->
         CASE asset.criticality = "Mission Critical" -> 10
           [] asset.criticality = "High" -> 7
           [] asset.criticality = "Medium" -> 4
           [] asset.criticality = "Low" -> 1
           [] OTHER -> 4,
       asset_exposed |-> IF asset.exposed_to_internet THEN 1 ELSE 0,
       asset_patch_level |->
         CASE asset.patch_level = "Current" -> 0
           [] asset.patch_level = "Outdated" -> 5
           [] asset.patch_level = "Critical" -> 10
           [] OTHER -> 7,
       severity_variance |->
         n * SumSeq([i \in 1..n |-> cvss[i] * cvss[i]]) - SumSeq(cvss) * SumSeq(cvss)]

\* BayesianRiskModel.predict
BayesianRiskModel(f) ==
  LET n == f.vuln_count_total
  IN  Min((100 * f.cvss_sum * (2 * n + f.exploit_available_count)
               * (5 + f.asset_criticality)) \div (n * 2 * n * 10),
          UltraHundred)

\* GradientBoostingRiskModel.predict
GradientBoostingRiskModel(f) ==
  Min((f.vuln_count_critical * 28 + f.vuln_count_high * 16
         + f.actively_exploited_count * 20) * (5 + f.asset_criticality) * 10,
      UltraHundred)

\* NeuralNetworkRiskModel.predict
NeuralNetworkRiskModel(f) ==
  Min(f.cvss_max * 80
        + (f.exploit_available_count * 15000) \div f.vuln_count_total
        + f.asset_criticality * 700
        + f.asset_exposed * 10000,
      UltraHundred)

\* MarkovChainRiskModel.predict
MarkovChainRiskModel(f) ==
  LET n == f.vuln_count_total
  IN  Min((100 * f.cvss_sum * (10 * n + 3 * f.exploit_available_count))
            \div (n * 10 * n),
          UltraHundred)

_rules_based_prediction(f) ==
  LET risk == f.vuln_count_critical * 30 + f.vuln_count_high * 15
                + f.vuln_count_medium * 7 + f.vuln_count_low * 2
      exploitation == IF f.actively_exploited_count > 0 THEN 15
                      ELSE IF f.exploit_public_count > 0 THEN 13
                      ELSE IF f.exploit_available_count > 0 THEN 12
                      ELSE 10
      exposure == IF f.asset_exposed > 0 THEN 13 ELSE 10
      criticality_mult == 50 + f.asset_criticality * 15
  IN  Min((risk * exploitation * exposure * criticality_mult) \div 100,
          UltraHundred)

_get_ensemble_predictions(f) ==
  <<BayesianRiskModel(f), GradientBoostingRiskModel(f),
    NeuralNetworkRiskModel(f), MarkovChainRiskModel(f),
    _rules_based_prediction(f)>>

\* A variant without the branch for a mean of 0: the coefficient of
\* variation is then taken as its cap.
AgreementWithoutZeroBranch(predictions) ==
  LET mean_pred == Mean(predictions)
      std_pred == Std(predictions)
  IN  IF mean_pred = 0 THEN 0
      ELSE UltraOne - Min((std_pred * UltraOne) \div mean_pred, UltraOne)

_calculate_model_agreement(predictions) ==
  LET mean_pred == Mean(predictions)
      std_pred == Std(predictions)
  IN  IF mean_pred = 0 THEN UltraOne
      ELSE UltraOne - Min((std_pred * UltraOne) \div mean_pred, UltraOne)

\* self.min_model_agreement, self.min_confidence, self.max_uncertainty
min_model_agreement == (90 * UltraOne) \div 100
min_confidence == (95 * UltraOne) \div 100
max_uncertainty == (5 * UltraOne) \div 100

\* StackingEnsemble.predict
StackingEnsemble(predictions) ==
  (25 * predictions[1] + 25 * predictions[2] + 20 * predictions[3]
     + 15 * predictions[4] + 15 * predictions[5]) \div 100

\* ProbabilityCalibrator.calibrate
ProbabilityCalibrator(score, f) == score

\* ConformalPredictor.predict_interval
ConformalPredictor(point_prediction, f) ==
  LET margin == (f.severity_variance * 2576)
                  \div (f.vuln_count_total * f.vuln_count_total * 1000)
  IN  <<Max(0, point_prediction - margin),
        Min(UltraHundred, point_prediction + margin)>>

_quantify_uncertainty(predictions, f) ==
  Min(Std(predictions)
        + (IF f.vuln_age_sum = 0 THEN 200 ELSE 0)
        + (IF f.asset_patch_level > 6 THEN 100 ELSE 0)
        + (IF f.vuln_count_total < 3 THEN 300 ELSE 0),
      UltraOne)

\* A variant without the sample-size factor.
ConfidenceWithoutSampleSize(agreement, uncertainty, vuln_count, f) ==
  LET penalized == (agreement * (UltraOne - uncertainty)) \div UltraOne
      aged == IF f.vuln_age_sum > 0 THEN (penalized * 102) \div 100 ELSE penalized
      patched == IF f.patch_available_count > 0 THEN (aged * 102) \div 100 ELSE aged
  IN  Min(patched, UltraOne)

_calculate_confidence(agreement, uncertainty, vuln_count, f) ==
  LET penalized == (agreement * (UltraOne - uncertainty)) \div UltraOne
      sized == IF vuln_count < 3 THEN (penalized * 70) \div 100
               ELSE IF vuln_count < 5 THEN (penalized * 85) \div 100
               ELSE IF vuln_count > 10 THEN (penalized * 105) \div 100
               ELSE penalized
      aged == IF f.vuln_age_sum > 0 THEN (sized * 102) \div 100 ELSE sized
      patched == IF f.patch_available_count > 0 THEN (aged * 102) \div 100 ELSE aged
  IN  Min(patched, UltraOne)

_validate_against_ground_truth(prediction, ground_truth, conf_interval) ==
  conf_interval[1] <= ground_truth /\ ground_truth <= conf_interval[2]

\* A variant without the cap.
CorrelateUncapped(score, historical_data) ==
  IF historical_data.previous_compromises > 0 THEN (score * 11) \div 10 ELSE score

_correlate_with_history(score, historical_data) ==
  IF historical_data.previous_compromises > 0
  THEN Min((score * 11) \div 10, UltraHundred)
  ELSE Min(score, UltraHundred)

\* A variant that labels High on the score alone.
CategorizeHighOnScore(score, confidence, uncertainty) ==
  IF /\ score >= 95 * 100
     /\ confidence >= (95 * UltraOne) \div 100
     /\ uncertainty <= (5 * UltraOne) \div 100
  THEN "Critical"
  ELSE IF score >= 85 * 100 THEN "High"
  ELSE IF score >= 60 * 100 THEN "Medium"
  ELSE IF score >= 30 * 100 THEN "Low"
  ELSE "Informational"

_categorize_risk_ultra_precise(score, confidence, uncertainty) ==
  IF /\ score >= 95 * 100
     /\ confidence >= (95 * UltraOne) \div 100
     /\ uncertainty <= (5 * UltraOne) \div 100
  THEN "Critical"
  ELSE IF score >= 85 * 100 /\ confidence >= (90 * UltraOne) \div 100 THEN "High"
  ELSE IF score >= 60 * 100 THEN "Medium"
  ELSE IF score >= 30 * 100 THEN "Low"
  ELSE "Informational"

\* The factors, in points.
_explain_risk_factors(f) ==
  [vulnerability_severity |->
     Min(f.vuln_count_critical * 25 + f.vuln_count_high * 15
           + f.vuln_count_medium * 7, 100),
   exploitation_status |->
     Min(f.actively_exploited_count * 40 + f.exploit_public_count * 25
           + f.exploit_available_count * 15, 100),
   internet_exposure |-> f.asset_exposed * 100,
   asset_criticality |-> f.asset_criticality * 10,
   missing_patches |->
     (100 * (f.vuln_count_total - f.patch_available_count)) \div f.vuln_count_total]

_zero_risk_score ==
  [score |-> 0, confidence |-> UltraOne, uncertainty |-> 0,
   confidence_interval |-> <<0, 0>>, risk_level |-> "Informational",
   contributing_factors |-> <<>>, model_agreement |-> UltraOne,
   validation_passed |-> TRUE, precision_level |-> "ultra_high"]

\* A variant that reports the validation as passed.
LowConfidencePassed(predictions, agreement) ==
  [score |-> Mean(predictions), confidence |-> agreement,
   uncertainty |-> UltraOne \div 2,
   confidence_interval |-> <<0, UltraHundred>>, risk_level |-> "Uncertain",
   contributing_factors |-> [model_disagreement |-> UltraOne - agreement],
   model_agreement |-> agreement, validation_passed |-> TRUE,
   precision_level |-> "low"]

_low_confidence_score(predictions, agreement) ==
  [score |-> Mean(predictions), confidence |-> agreement,
   uncertainty |-> UltraOne \div 2,
   confidence_interval |-> <<0, UltraHundred>>, risk_level |-> "Uncertain",
   contributing_factors |-> [model_disagreement |-> UltraOne - agreement],
   model_agreement |-> agreement, validation_passed |-> FALSE,
   precision_level |-> "low"]

\* A variant of the quality gates that leaves the confidence out.
PrecisionLevelWithoutConfidence(confidence, agreement, uncertainty) ==
  IF agreement >= min_model_agreement /\ uncertainty <= max_uncertainty
  THEN "ultra_high" ELSE "standard"

\* Step 11 of calculate_ultra_precise_risk, the quality gates.
PrecisionLevel(confidence, agreement, uncertainty) ==
  IF /\ confidence >= min_confidence
     /\ agreement >= min_model_agreement
     /\ uncertainty <= max_uncertainty
  THEN "ultra_high" ELSE "standard"

\* Steps 4 to 12 of calculate_ultra_precise_risk.
FullResult(input, f, predictions, agreement) ==
  LET base_score == StackingEnsemble(predictions)
      calibrated == ProbabilityCalibrator(base_score, f)
      conf_interval == ConformalPredictor(base_score, f)
      uncertainty == _quantify_uncertainty(predictions, f)
      confidence == _calculate_confidence(agreement, uncertainty,
                                          Len(input.vulnerabilities), f)
      validation_passed ==
        IF input.ground_truth.given
        THEN _validate_against_ground_truth(calibrated, input.ground_truth.value,
                                            conf_interval)
        ELSE TRUE
      score == IF input.historical_data.given
               THEN _correlate_with_history(calibrated, input.historical_data)
               ELSE calibrated
  IN  [score |-> score, confidence |-> confidence, uncertainty |-> uncertainty,
       confidence_interval |-> conf_interval,
       risk_level |-> _categorize_risk_ultra_precise(score, confidence, uncertainty),
       contributing_factors |-> _explain_risk_factors(f),
       model_agreement |-> agreement, validation_passed |-> validation_passed,
       precision_level |-> PrecisionLevel(confidence, agreement, uncertainty)]

\* The path a call takes and what it returns: "zero" and "low" are the
\* early returns, "raise" the AttributeError, "full" the whole pipeline.
calculate_ultra_precise_risk(input) ==
  IF input.vulnerabilities = <<>>
  THEN [path |-> "zero", result |-> _zero_risk_score]
  ELSE IF RaisesAttributeError(input.vulnerabilities)
  THEN [path |-> "raise", result |-> [raised |-> "AttributeError"]]
  ELSE LET f == _extract_ultra_precise_features(input.asset, input.vulnerabilities)
           predictions == _get_ensemble_predictions(f)
           agreement == _calculate_model_agreement(predictions)
       IN  IF agreement < min_model_agreement
           THEN [path |-> "low",
                 result |-> _low_confidence_score(predictions, agreement)]
           ELSE [path |-> "full",
                 result |-> FullResult(input, f, predictions, agreement)]

\* The dict _update_prediction_history appends; ground_truth is the
\* argument of the call, timestamp the clock.
HistoryEntry(result, ground_truth, now) ==
  [prediction |-> result.score, confidence |-> result.confidence,
   ground_truth |-> ground_truth, timestamp |-> now]

\* A variant of the slice that keeps the oldest entries.
FirstEntries(h, n) == SubSeq(h, 1, Min(n, Len(h)))

\* self.prediction_history[-n:]
LastEntries(h, n) == IF Len(h) <= n THEN h ELSE SubSeq(h, Len(h) - n + 1, Len(h))

_update_prediction_history(h, entry) ==
  IF Len(Append(h, entry)) > HistoryCapacity
  THEN LastEntries(Append(h, entry), HistoryCapacity)
  ELSE Append(h, entry)

\* What a call leaves in calls_log.
LogItem(path, entry) == [path |-> path, entry |-> entry]

\* One call of calculate_ultra_precise_risk, from entry to return.
CalculateUltraPreciseRisk(input) ==
  /\ clock < MaxCalls
  /\ clock' = clock + 1
  /\ \E r \in {calculate_ultra_precise_risk(input)} :
       /\ uret' = r.result
       /\ IF r.path = "full"
          THEN \E entry \in {HistoryEntry(r.result, input.ground_truth, clock + 1)} :
                 /\ prediction_history' =
                      _update_prediction_history(prediction_history, entry)
                 /\ calls_log' = Append(calls_log, LogItem(r.path, entry))
          ELSE /\ prediction_history' = prediction_history
               /\ calls_log' = Append(calls_log, LogItem(r.path, NoReturn))
  /\ UNCHANGED <<upc, ulocal>>

UltraNext ==
  /\ \E input \in UltraInputs : CalculateUltraPreciseRisk(input)
  /\ UNCHANGED <<engineVars, cycleVars>>

SpecUltra == Init /\ [][UltraNext]_vars

\* ---------------------------------------------------------------- ensemble engine, threads
\* calculate_ultra_precise_risk called from several threads on one engine:
\* the computation of the result, then the statements of
\* _update_prediction_history one by one.  The code takes no lock.

\* What the threads pass: one asset, no historical data, no ground truth.
UltraThreadInputs ==
  {input \in UltraInputs : /\ input.asset.criticality = "Mission Critical"
                           /\ ~input.historical_data.given}

\* The call up to the return of an early path, or up to the entry built.
UltraBegin(t, input) ==
  /\ upc[t] = "idle"
  /\ clock < MaxCalls
  /\ clock' = clock + 1
  /\ \E r \in {calculate_ultra_precise_risk(input)} :
       IF r.path = "full"
       THEN /\ upc' = [upc EXCEPT ![t] = "append"]
            /\ ulocal' = [ulocal EXCEPT ![t].entry =
                            HistoryEntry(r.result, input.ground_truth, clock + 1)]
            /\ UNCHANGED calls_log
       ELSE /\ calls_log' = Append(calls_log, LogItem(r.path, NoReturn))
            /\ UNCHANGED <<upc, ulocal>>
  /\ UNCHANGED <<prediction_history, uret>>

\* self.prediction_history.append({...})
UltraAppend(t) ==
  /\ upc[t] = "append"
  /\ prediction_history' = Append(prediction_history, ulocal[t].entry)
  /\ calls_log' = Append(calls_log, LogItem("full", ulocal[t].entry))
  /\ upc' = [upc EXCEPT ![t] = "check"]
  /\ UNCHANGED <<clock, uret, ulocal>>

\* if len(self.prediction_history) > 1000:
UltraCheckLength(t) ==
  /\ upc[t] = "check"
  /\ IF Len(prediction_history) > HistoryCapacity
     THEN /\ upc' = [upc EXCEPT ![t] = "slice"]
          /\ UNCHANGED ulocal
     ELSE /\ upc' = [upc EXCEPT ![t] = "idle"]
          /\ ulocal' = [ulocal EXCEPT ![t] = NoUltraLocals]
  /\ UNCHANGED <<prediction_history, clock, calls_log, uret>>

\* The right-hand side self.prediction_history[-1000:]
UltraSlice(t) ==
  /\ upc[t] = "slice"
  /\ ulocal' = [ulocal EXCEPT ![t].tmp = LastEntries(prediction_history, HistoryCapacity)]
  /\ upc' = [upc EXCEPT ![t] = "assign"]
  /\ UNCHANGED <<prediction_history, clock, calls_log, uret>>

\* The assignment self.prediction_history = ..., and the return.
UltraAssign(t) ==
  /\ upc[t] = "assign"
  /\ prediction_history' = ulocal[t].tmp
  /\ upc' = [upc EXCEPT ![t] = "idle"]
  /\ ulocal' = [ulocal EXCEPT ![t] = NoUltraLocals]
  /\ UNCHANGED <<clock, calls_log, uret>>

UltraThreadsStep ==
  \E t \in Threads :
    \/ \E input \in UltraThreadInputs : UltraBegin(t, input)
    \/ UltraAppend(t)
    \/ UltraCheckLength(t)
    \/ UltraSlice(t)
    \/ UltraAssign(t)

UltraThreadsNext == UltraThreadsStep /\ UNCHANGED <<engineVars, cycleVars>>

SpecUltraThreads == Init /\ [][UltraThreadsNext]_vars

\* ---------------------------------------------------------------- ensemble engine, gates
\* calculate_ultra_precise_risk on a wide set of inputs, next to the two
\* pure functions its gates rest on, applied to arguments of their own.

UltraTen ==
  [cvss_score |-> 100, exploit_available |-> FALSE, exploit_public |-> FALSE,
   patch_available |-> FALSE, has_actively_exploited |-> TRUE,
   actively_exploited |-> TRUE, published |-> TRUE, age |-> 0]

UltraTenPublic == [UltraTen EXCEPT !.exploit_public = TRUE]

UltraHighExploited ==
  [cvss_score |-> 75, exploit_available |-> TRUE, exploit_public |-> TRUE,
   patch_available |-> TRUE, has_actively_exploited |-> TRUE,
   actively_exploited |-> TRUE, published |-> TRUE, age |-> 0]

UltraMedium ==
  [cvss_score |-> 50, exploit_available |-> FALSE, exploit_public |-> FALSE,
   patch_available |-> TRUE, has_actively_exploited |-> TRUE,
   actively_exploited |-> FALSE, published |-> TRUE, age |-> 10]

GateVulnKinds ==
  {UltraCritical, UltraHigh, UltraTen, UltraTenPublic, UltraHighExploited,
   UltraMedium}

\* n times the vulnerability v.
Copies(v, n) == [i \in 1..n |-> v]

GateVulnLists ==
  { <<>>, <<UltraModelClass>> }
    \cup { Copies(v, n) : v \in GateVulnKinds, n \in 1..MaxGateVulns }
    \cup { Append(Copies(UltraCritical, n - 1), UltraHigh) : n \in 2..MaxGateVulns }
    \cup { Append(Copies(UltraHigh, n - 1), UltraMedium) : n \in 2..MaxGateVulns }

GateInputs ==
  { [asset |-> NewAsset(a), vulnerabilities |-> vs,
     historical_data |-> c.historical_data, ground_truth |-> c.ground_truth] :
    a \in AggAssetInputs, vs \in GateVulnLists, c \in UltraContexts }

\* What calculate_ultra_precise_risk returns for each input.
GateResults == [input \in GateInputs |-> calculate_ultra_precise_risk(input)]

\* The five estimates of each input that reaches them.
GateEstimates ==
  [input \in GateInputs |->
     IF input.vulnerabilities = <<>> \/ RaisesAttributeError(input.vulnerabilities)
     THEN <<>>
     ELSE _get_ensemble_predictions(
            _extract_ultra_precise_features(input.asset, input.vulnerabilities))]

\* Arguments of _categorize_risk_ultra_precise around its thresholds.
GateScores ==
  {0, 2999, 3000, 5999, 6000, 8499, 8500, 9499, 9500, UltraHundred}
GateConfidences == {0, 8999, 9000, 9499, 9500, UltraOne}
GateUncertainties == {0, 500, 501, UltraOne}

\* Arguments of _calculate_model_agreement: five estimates, four of them
\* equal.
GatePredictions ==
  { <<a, a, a, a, b>> : a, b \in {0, 1, 3333, 6163, 9999, UltraHundred} }

\* One call of calculate_ultra_precise_risk.
GateCall(input) ==
  /\ clock < MaxGateSteps
  /\ CalculateUltraPreciseRisk(input)
  /\ UNCHANGED <<engineVars, cycleVars>>

\* _categorize_risk_ultra_precise(score, confidence, uncertainty)
CategorizeRisk(score, confidence, uncertainty) ==
  /\ clock < MaxGateSteps
  /\ clock' = clock + 1
  /\ uret' = [op |-> "_categorize_risk_ultra_precise",
              args |-> <<score, confidence, uncertainty>>,
              value |-> _categorize_risk_ultra_precise(score, confidence,
                                                       uncertainty)]
  /\ UNCHANGED <<engineVars, cycleVars, prediction_history, calls_log, upc, ulocal>>

\* _calculate_model_agreement(predictions) and the test of step 3.
CalculateModelAgreement(predictions) ==
  /\ clock < MaxGateSteps
  /\ clock' = clock + 1
  /\ \E agreement \in {_calculate_model_agreement(predictions)} :
       uret' = [op |-> "_calculate_model_agreement",
                args |-> predictions,
                value |-> agreement,
                low |-> agreement < min_model_agreement]
  /\ UNCHANGED <<engineVars, cycleVars, prediction_history, calls_log, upc, ulocal>>

GateNext ==
  \/ \E input \in GateInputs : GateCall(input)
  \/ \E score \in GateScores, confidence \in GateConfidences,
        uncertainty \in GateUncertainties :
       CategorizeRisk(score, confidence, uncertainty)
  \/ \E predictions \in GatePredictions : CalculateModelAgreement(predictions)

SpecGates == Init /\ [][GateNext]_vars

\* ---------------------------------------------------------------- claims
ScenariosWithId(scenarios, sid) == SelectSeq(scenarios, LAMBDA sc : sc.id = sid)

ScenarioIds(scenarios) == [i \in 1..Len(scenarios) |-> scenarios[i].id]

C2_BucketsPartition ==
  (ret.op = "get_risk_summary" /\ Len(assets) >= 1) =>
    ret.value.critical_assets + ret.value.high_risk_assets
      + ret.value.medium_risk_assets + ret.value.low_risk_assets
      = ret.value.total_assets

\* C3: after calculate_asset_risk(asset) returns, on either path, the asset's
\* stored risk_score is the total_risk_score of the result just returned.
C3_ScoreWrittenBack ==
  ret.op = "calculate_asset_risk" =>
    assets[ret.asset].risk_score = ret.value.total_risk_score

C3_Witness ==
  /\ ret.op = "calculate_asset_risk"
  /\ ret.value.total_risk_score > 0
  /\ \E id \in 1..Len(assets) :
       /\ id # ret.asset
       /\ ResolvableIds(assets[id]) = <<>>
       /\ assets[id].vulnerability_ids # <<>>

\* C8: after a correlation pass the stored risk_scenarios is exactly the list
\* the pass returned, and one more pass over the same assets and
\* vulnerabilities would store a list of the same length and scenario ids.
C8_ListReplaced ==
  ret.op = "generate_risk_scenarios" =>
    /\ risk_scenarios = ret.value
    /\ ScenarioIds(StoredScenarios(risk_scenarios, generate_risk_scenarios(assets)))
         = ScenarioIds(risk_scenarios)

C8_Witness ==
  /\ ret.op = "generate_risk_scenarios"
  /\ ret.repeat
  /\ Len(risk_scenarios) >= 2

\* C9: a second calculate_asset_risk on the same asset, nothing else changed,
\* returns a result equal in every field to the one just returned, although
\* the first call wrote the asset's risk_score.
C9_Idempotent ==
  ret.op = "calculate_asset_risk" =>
    calculate_asset_risk(ret.asset, assets[ret.asset]) = ret.value

C9_Witness ==
  /\ ret.op = "calculate_asset_risk"
  /\ ret.repeat
  /\ assets[ret.asset].risk_score > 0
  /\ Len(ret.value.contributing_vulnerabilities) >= 2

\* C10: for an asset whose vulnerability_ids resolve to nothing,
\* calculate_asset_risk returns total 0, no risk factor, no contributing
\* vulnerability and the single default recommendation; and no result ever
\* lists a dangling id among its contributing_vulnerabilities.
C10_NoVulnerabilities ==
  ret.op = "calculate_asset_risk" =>
    /\ Range(ret.value.contributing_vulnerabilities) \subseteq 1..Len(vulnerabilities)
    /\ (\A i \in 1..Len(assets[ret.asset].vulnerability_ids) :
          assets[ret.asset].vulnerability_ids[i] \notin 1..Len(vulnerabilities))
       => /\ ret.value.total_risk_score = 0
          /\ ret.value.risk_factors = <<>>
          /\ ret.value.contributing_vulnerabilities = <<>>
          /\ Len(ret.value.recommendations) = 1
          /\ ret.value.recommendations[1].msg = "No vulnerabilities detected"

C10_Witness ==
  /\ ret.op = "calculate_asset_risk"
  /\ assets[ret.asset].vulnerability_ids # <<>>
  /\ ResolvableIds(assets[ret.asset]) = <<>>
  /\ vulnerabilities # <<>>

\* C4: in every cycle, correlation starts only once the cycle has scored
\* every asset; the risk scores the lateral-movement pass of the cycle read
\* are the totals the cycle itself computed; and the summary the cycle
\* returns counts the scenario list the cycle stored.
C4_ScoringBeforeScenarios ==
  \A t \in Callers :
    /\ pc[t] \in {"scenarios", "summary"} => Len(local[t].results) = Len(assets)
    /\ pc[t] = "summary" =>
         \A i \in 1..Len(assets) :
           local[t].lateral[i] = local[t].results[i].total_risk_score
    /\ out[t] # NoReturn => out[t].summary.risk_scenarios = Len(out[t].scenarios)

C4_Witness ==
  \E t \in Callers :
    /\ out[t] # NoReturn
    /\ pc[t] = "idle"
    /\ Len(out[t].risk_results) >= 2
    /\ \E k \in 1..Len(out[t].scenarios) :
         /\ out[t].scenarios[k].id.prefix = "rs_lateral"
         /\ Len(out[t].scenarios[k].affected_asset_ids) >= 2

\* C5: two cycles on one orchestrator never interleave: while a caller is
\* between the first and the last step of its cycle, no other caller is
\* inside a cycle.
C5_NoInterleaving ==
  Cardinality({t \in Callers : pc[t] # "idle"}) <= 1

\* The entries of the calls that reached the append step, in append order.
ReachedAppend(item) == item.path = "full"
AppendedEntries ==
  LET reached == SelectSeq(calls_log, ReachedAppend)
  IN  [i \in 1..Len(reached) |-> reached[i].entry]

\* C6: prediction_history never holds more than the capacity, and holds
\* exactly the entries of the most recent min(k, capacity) calls that
\* reached the append step, in call order; the calls that returned early
\* left nothing in it.
C6_BoundedHistory ==
  LET k == Len(AppendedEntries)
  IN  /\ Len(prediction_history) <= HistoryCapacity
      /\ prediction_history =
           SubSeq(AppendedEntries, k - Min(k, HistoryCapacity) + 1, k)

C6_Witness ==
  /\ Len(AppendedEntries) > HistoryCapacity
  /\ Len(prediction_history) = HistoryCapacity
  /\ calls_log[Len(calls_log)].path = "low"
  /\ uret.risk_level = "Uncertain"

\* C7: once every concurrent call has returned, prediction_history holds,
\* once each, the entries of the most recent min(k, capacity) calls that
\* reached the append step: none of them is lost, none is there twice.
C7_NoLostEntry ==
  (\A t \in Threads : upc[t] = "idle") =>
    LET k == Len(AppendedEntries)
    IN  /\ Len(prediction_history) = Min(k, HistoryCapacity)
        /\ Range(prediction_history) =
             {AppendedEntries[i] : i \in (k - Min(k, HistoryCapacity) + 1)..k}

\* C12: a vulnerability that differs from the one just scored only by a
\* higher CVSS score never gets a lower score.
C12_MonotoneInCvss ==
  ret.op = "calculate_vulnerability_risk" =>
    \A j \in 1..Len(vulnerabilities) :
      (/\ [vulnerabilities[j] EXCEPT !.cvss_score = 0]
            = [vulnerabilities[ret.vuln] EXCEPT !.cvss_score = 0]
       /\ vulnerabilities[j].cvss_score >= vulnerabilities[ret.vuln].cvss_score)
      => calculate_vulnerability_risk(vulnerabilities[j]) >= ret.value

C12_Witness ==
  /\ ret.op = "calculate_vulnerability_risk"
  /\ ret.value > 0
  /\ \E j \in 1..Len(vulnerabilities) :
       /\ vulnerabilities[j].cvss_score > vulnerabilities[ret.vuln].cvss_score
       /\ calculate_vulnerability_risk(vulnerabilities[j]) = Hundred
       /\ ret.value < Hundred

\* The product of the scorer as the specification words it: the base
\* (cvssScore / 10) * 100 times the severity multiplier, the exploit factor
\* (1.5 if exploitPublic, else 1.3 if exploitAvailable, else 1.0), the patch
\* factor, the attack-vector factor and the threat factor (1.0 without a
\* cveId or without an entry).
SpecifiedProduct(v) ==
  LET severity == CASE v.severity = "Critical" -> 10 [] v.severity = "High" -> 8
                    [] v.severity = "Medium" -> 5 [] v.severity = "Low" -> 2
                    [] v.severity = "Informational" -> 0
      exploit == CASE v.exploit_public -> 15
                   [] ~v.exploit_public /\ v.exploit_available -> 13
                   [] OTHER -> 10
      patch == IF v.patch_available THEN 7 ELSE 10
      vector == CASE v.attack_vector = "Network" -> 13
                  [] v.attack_vector = "Adjacent" -> 11
                  [] v.attack_vector = "Local" -> 9
                  [] v.attack_vector = "Physical" -> 6
                  [] OTHER -> 10
      threat == IF v.cve_id = None THEN 100
                ELSE IF threat_intel[v.cve_id] < 0 THEN 100
                ELSE 100 + 5 * threat_intel[v.cve_id]
  IN  (v.cvss_score * severity * exploit * patch * vector * threat) \div 100

\* C13: the score is min(100, product), the exploit factor being 1.5
\* whenever exploit_public holds; cvss 10, Critical, public exploit, no
\* patch, Network, no threat intelligence gives 100.
C13_ScoreFormula ==
  ret.op = "calculate_vulnerability_risk" =>
    LET v == vulnerabilities[ret.vuln]
    IN  /\ ret.value = Min(Hundred, SpecifiedProduct(v))
        /\ (/\ v.cvss_score = 100 /\ v.severity = "Critical" /\ v.exploit_public
            /\ ~v.patch_available /\ v.attack_vector = "Network"
            /\ ~HasThreatIntel(v))
           => ret.value = Hundred

C13_Witness ==
  /\ ret.op = "calculate_vulnerability_risk"
  /\ LET v == vulnerabilities[ret.vuln]
     IN  /\ v.exploit_public /\ v.exploit_available
         /\ ret.value > 0 /\ ret.value < Hundred
         /\ HasThreatIntel(v)

InRange(x) == 0 <= x /\ x <= Hundred
ScenarioInRange(scenario) ==
  InRange(scenario.business_risk_score) /\ InRange(scenario.detection_coverage)

\* C11: every score the engine returns or stores lies in [0, 100]: the
\* score of each stored vulnerability, the three scores of a result, the
\* risk score of each asset, and the business risk score and detection
\* coverage of each scenario, stored or returned; the vulnerability_risk
\* of a result and the scores under it as the floats they are.
C11_ScoresInRange ==
  /\ \A i \in 1..Len(vulnerabilities) :
       InRange(calculate_vulnerability_risk(vulnerabilities[i]))
  /\ \A i \in 1..Len(assets) : InRange(assets[i].risk_score)
  /\ \A k \in 1..Len(risk_scenarios) : ScenarioInRange(risk_scenarios[k])
  /\ ret.op = "calculate_asset_risk" =>
       /\ InRange(ret.value.total_risk_score)
       /\ InRange(ret.value.vulnerability_risk)
       /\ InRange(ret.value.exposure_risk)
  /\ ret.op = "generate_risk_scenarios" =>
       \A k \in 1..Len(ret.value) : ScenarioInRange(ret.value[k])
  /\ (ret.op = "calculate_asset_risk" /\ "floats" \in DOMAIN ret) =>
       /\ \A i \in 1..Len(ret.floats.vuln_scores) :
            ~FloatLess(FloatFromNat(100), ret.floats.vuln_scores[i])
       /\ ~FloatLess(FloatFromNat(100), ret.floats.vulnerability_risk)

\* C14: with a resolvable vulnerability, the total is min(100,
\* criticalityMultiplier * (vr*0.35 + er*0.10 + vr*criticalityMultiplier*0.20
\* + vr*threatFactor*0.10) / 0.75), the threat factor being 1 + the highest
\* threat-intel score of the asset's vulnerabilities with a known CVE, or
\* 1.0 when none has one.
C14_TotalFormula ==
  (ret.op = "calculate_asset_risk" /\ ResolvableIds(assets[ret.asset]) # <<>>) =>
    LET vids == ResolvableIds(assets[ret.asset])
        vr == ret.value.vulnerability_risk
        er == ret.value.exposure_risk
        criticality == assets[ret.asset].criticality
        c == CASE criticality = "Mission Critical" -> 20
               [] criticality = "High" -> 15
               [] criticality = "Medium" -> 10
               [] criticality = "Low" -> 5
        known == {vulnerabilities[vids[i]].cve_id : i \in 1..Len(vids)}
                   \cap {cve \in DOMAIN threat_intel : threat_intel[cve] >= 0}
        tf == IF known = {} THEN 10
              ELSE 10 + CHOOSE t \in {threat_intel[cve] : cve \in known} :
                          \A cve \in known : threat_intel[cve] <= t
    IN  /\ ret.value.threat_intelligence_factor = tf
        /\ ret.value.criticality_multiplier = c
        /\ ret.value.total_risk_score =
             Min(Hundred,
                 (c * ((vr * 35 + er * 10 + vr * c * 2 + vr * tf) \div 75)) \div 10)

C14_Witness ==
  /\ ret.op = "calculate_asset_risk"
  /\ Len(ret.value.contributing_vulnerabilities) >= 2
  /\ ret.value.criticality_multiplier = 5
  /\ ret.value.total_risk_score > 0
  /\ ret.value.total_risk_score < Hundred
  /\ ret.value.threat_intelligence_factor = 20
  /\ \E cve \in DOMAIN threat_intel : threat_intel[cve] = 4

\* C15: with two or more resolvable vulnerabilities the vulnerability_risk
\* of the result, the float it is, lies between 0.6 times the highest score
\* and the highest score; with one it is the single score.
C15_NeverAboveTop ==
  (ret.op = "calculate_asset_risk" /\ "floats" \in DOMAIN ret
     /\ ret.floats.vuln_scores # <<>>) =>
    LET top == ret.floats.vuln_scores[1]
        vr == ret.floats.vulnerability_risk
    IN  /\ Len(ret.floats.vuln_scores) = 1 => vr = top
        /\ ~FloatLess(vr, FloatMul(top, FloatTenths(6)))
        /\ ~FloatLess(top, vr)

\* The messages of _generate_recommendations in priority order, and
\* whether the trigger of the k-th holds for the asset and its resolvable
\* vulnerabilities.
PriorityMessages ==
  <<"URGENT: Patch critical vulnerabilities", "Prioritize patching high-severity",
    "Address public exploits", "Consider reducing internet exposure",
    "Update system patches", "Ensure antivirus is active",
    "Enable host-based firewall">>

Triggered(asset, k) ==
  LET vids == ResolvableIds(asset)
      some(P(_)) == \E i \in 1..Len(vids) : P(vulnerabilities[vids[i]])
  IN  CASE k = 1 -> some(LAMBDA v : v.severity = "Critical")
        [] k = 2 -> some(LAMBDA v : v.severity = "High")
        [] k = 3 -> some(LAMBDA v : v.exploit_public)
        [] k = 4 -> asset.exposed_to_internet
        [] k = 5 -> asset.patch_level \in {"Outdated", "Critical"}
        [] k = 6 -> asset.antivirus_status # "Active"
        [] k = 7 -> ~asset.firewall_enabled

\* C16: with a resolvable vulnerability, the recommendations are at most
\* five messages, each one triggered, in priority order, and a triggered
\* message is missing only if five triggered messages of higher priority
\* precede it.
C16_Recommendations ==
  (ret.op = "calculate_asset_risk" /\ ResolvableIds(assets[ret.asset]) # <<>>) =>
    LET asset == assets[ret.asset]
        recs == ret.value.recommendations
        priority(i) == CHOOSE k \in 1..Len(PriorityMessages) :
                         PriorityMessages[k] = recs[i].msg
    IN  /\ Len(recs) <= 5
        /\ \A i \in 1..Len(recs) :
             /\ recs[i].msg \in Range(PriorityMessages)
             /\ Triggered(asset, priority(i))
        /\ \A i, j \in 1..Len(recs) : i < j => priority(i) < priority(j)
        /\ \A k \in 1..Len(PriorityMessages) :
             (Triggered(asset, k) /\ \A i \in 1..Len(recs) : recs[i].msg # PriorityMessages[k])
               => Cardinality({m \in 1..(k - 1) : Triggered(asset, m)}) >= 5

C16_Witness ==
  /\ ret.op = "calculate_asset_risk"
  /\ \A k \in 1..Len(PriorityMessages) : Triggered(assets[ret.asset], k)
  /\ Len(ret.value.recommendations) = 5
  /\ ret.value.recommendations[5].msg = "Update system patches"

\* The scenarios of a list whose id has the given prefix.
WithPrefix(scenarios, prefix) ==
  SelectSeq(scenarios, LAMBDA s : s.id.prefix = prefix)

\* C17: a correlation pass returns a lateral-movement scenario for a
\* location if and only if at least two assets of that location (Unknown
\* for an asset without one) have a risk score above 70; it returns at most
\* one per location; the scenario names exactly those assets and has
\* business risk score 75.
C17_LateralMovement ==
  ret.op = "generate_risk_scenarios" =>
    LET lateral == WithPrefix(ret.value, "rs_lateral")
        locationOf(i) == IF assets[i].location = None THEN "Unknown"
                         ELSE assets[i].location
        high(location) == {i \in 1..Len(assets) :
                             locationOf(i) = location /\ assets[i].risk_score > 70 * Unit}
    IN  /\ \A location \in {locationOf(i) : i \in 1..Len(assets)} :
             (\E k \in 1..Len(lateral) : lateral[k].id.location = location)
               <=> Cardinality(high(location)) >= 2
        /\ \A k, l \in 1..Len(lateral) :
             lateral[k].id.location = lateral[l].id.location => k = l
        /\ \A k \in 1..Len(lateral) :
             /\ Range(lateral[k].affected_asset_ids) = high(lateral[k].id.location)
             /\ Len(lateral[k].affected_asset_ids)
                  = Cardinality(high(lateral[k].id.location))
             /\ Cardinality(high(lateral[k].id.location)) >= 2
             /\ lateral[k].business_risk_score = 75 * Unit

C17_Witness ==
  /\ ret.op = "generate_risk_scenarios"
  /\ \E k \in 1..Len(ret.value) :
       /\ ret.value[k].id.prefix = "rs_lateral"
       /\ ret.value[k].id.location = "Unknown"
       /\ Len(ret.value[k].affected_asset_ids) = 2
  /\ \A i \in 1..Len(assets) : assets[i].location = None

\* C18: a correlation pass returns an internet-breach scenario for an asset
\* if and only if the asset is exposed to the internet and one of its
\* vulnerability ids resolves to a Critical vulnerability; it returns
\* exactly one for such an asset, with business risk score 95, and returns
\* it beside the multi-stage scenario of an asset with two or more.
C18_InternetBreach ==
  ret.op = "generate_risk_scenarios" =>
    LET breach == WithPrefix(ret.value, "rs_breach")
        exploit == WithPrefix(ret.value, "rs_exploit")
        critical(i) == {k \in 1..Len(assets[i].vulnerability_ids) :
                          /\ assets[i].vulnerability_ids[k] \in 1..Len(vulnerabilities)
                          /\ vulnerabilities[assets[i].vulnerability_ids[k]].severity
                               = "Critical"}
        of(scenarios, i) == {k \in 1..Len(scenarios) : scenarios[k].id.asset = i}
    IN  /\ \A i \in 1..Len(assets) :
             /\ Cardinality(of(breach, i))
                  = IF assets[i].exposed_to_internet /\ critical(i) # {} THEN 1 ELSE 0
             /\ (assets[i].exposed_to_internet /\ Cardinality(critical(i)) >= 2) =>
                  of(exploit, i) # {} /\ of(breach, i) # {}
        /\ \A k \in 1..Len(breach) :
             /\ breach[k].id.asset \in 1..Len(assets)
             /\ breach[k].affected_asset_ids = <<breach[k].id.asset>>
             /\ breach[k].business_risk_score = 95 * Unit

C18_Witness ==
  /\ ret.op = "generate_risk_scenarios"
  /\ \E k, l \in 1..Len(ret.value) :
       /\ ret.value[k].id.prefix = "rs_breach"
       /\ ret.value[l].id.prefix = "rs_exploit"
       /\ ret.value[k].id.asset = ret.value[l].id.asset
       /\ assets[ret.value[k].id.asset].risk_score # 95 * Unit
       /\ ret.value[k].business_risk_score # ret.value[l].business_risk_score
       /\ Len(ret.value[k].correlated_vulnerability_ids) >= 2

\* The five estimates of a call that reaches them, and their agreement.
Estimates(input) ==
  _get_ensemble_predictions(
    _extract_ultra_precise_features(input.asset, input.vulnerabilities))

ReachesEstimates(input) ==
  input.vulnerabilities # <<>> /\ ~RaisesAttributeError(input.vulnerabilities)

\* What calculate_ultra_precise_risk returns for each input, and the
\* agreement of the estimates of the inputs that reach them (-1 for the
\* others).
UltraResults ==
  [input \in UltraInputs |-> calculate_ultra_precise_risk(input).result]

UltraAgreements ==
  [input \in UltraInputs |->
     IF ReachesEstimates(input)
     THEN _calculate_model_agreement(Estimates(input)) ELSE -1]

\* C19: a call whose five estimates agree below 0.90 returns, whatever the
\* ground truth given, the mean of the estimates as score, the agreement
\* as confidence, uncertainty 0.5, the interval (0, 100), precision level
\* low and validation_passed false; and a call returns precision level
\* low only when its estimates agree below 0.90.
C19_LowAgreement ==
  [][\A input \in UltraInputs :
       (uret' = UltraResults[input] /\ CalculateUltraPreciseRisk(input)) =>
         LET low == ReachesEstimates(input)
                      /\ UltraAgreements[input] < (90 * UltraOne) \div 100
         IN  /\ low =>
                  /\ "score" \in DOMAIN uret'
                  /\ uret'.score = SumSeq(Estimates(input)) \div 5
                  /\ uret'.confidence = UltraAgreements[input]
                  /\ uret'.model_agreement = uret'.confidence
                  /\ uret'.uncertainty = UltraOne \div 2
                  /\ uret'.confidence_interval = <<0, UltraHundred>>
                  /\ uret'.precision_level = "low"
                  /\ uret'.validation_passed = FALSE
             /\ ("precision_level" \in DOMAIN uret' /\ uret'.precision_level = "low")
                  => low]_vars

C19_Witness ==
  /\ "precision_level" \in DOMAIN uret
  /\ uret.precision_level = "low"
  /\ \E input \in UltraInputs :
       /\ input.ground_truth.given
       /\ input.ground_truth.value \in 0..UltraHundred
       /\ calculate_ultra_precise_risk(input).result = uret
       /\ uret.score > 0
       /\ uret.confidence < (90 * UltraOne) \div 100

\* C20: every result a call returns has its score in [0, 100], its
\* confidence, uncertainty and model agreement in [0, 1], and an interval
\* with 0 <= lower <= upper <= 100.
C20_ResultInRange ==
  "score" \in DOMAIN uret =>
    /\ 0 <= uret.score /\ uret.score <= UltraHundred
    /\ 0 <= uret.confidence /\ uret.confidence <= UltraOne
    /\ 0 <= uret.uncertainty /\ uret.uncertainty <= UltraOne
    /\ 0 <= uret.model_agreement /\ uret.model_agreement <= UltraOne
    /\ 0 <= uret.confidence_interval[1]
    /\ uret.confidence_interval[1] <= uret.confidence_interval[2]
    /\ uret.confidence_interval[2] <= UltraHundred

\* A full result whose historical data raised the score to the cap, after
\* calls on the two early-return paths.
C20_Witness ==
  /\ "score" \in DOMAIN uret
  /\ uret.precision_level = "standard"
  /\ uret.score = UltraHundred
  /\ uret.confidence_interval[1] < uret.confidence_interval[2]
  /\ \E input \in UltraInputs :
       /\ input.historical_data.given
       /\ calculate_ultra_precise_risk(input).result = uret
       /\ calculate_ultra_precise_risk(
            [input EXCEPT !.historical_data = NoHistory]).result.score < uret.score
  /\ \E i, j \in 1..Len(calls_log) :
       calls_log[i].path = "zero" /\ calls_log[j].path = "low"

\* C21: a result of tier ultra_high has confidence >= 0.95, model agreement
\* >= 0.90 and uncertainty <= 0.05; a result of the full pipeline that
\* meets the three has tier ultra_high, and every other result of the full
\* pipeline has tier standard.
C21_PrecisionGates ==
  "precision_level" \in DOMAIN uret =>
    LET gates == /\ uret.confidence >= (95 * UltraOne) \div 100
                 /\ uret.model_agreement >= (90 * UltraOne) \div 100
                 /\ uret.uncertainty <= (5 * UltraOne) \div 100
    IN  /\ uret.precision_level = "ultra_high" => gates
        /\ calls_log[Len(calls_log)].path = "full" =>
             /\ gates => uret.precision_level = "ultra_high"
             /\ ~gates => uret.precision_level = "standard"

\* A result of the full pipeline with tier ultra_high and a confidence
\* below 1.
C21_Witness ==
  /\ "precision_level" \in DOMAIN uret
  /\ calls_log[Len(calls_log)].path = "full"
  /\ uret.precision_level = "ultra_high"
  /\ uret.confidence < UltraOne
  /\ uret.score > 0

\* The level the first matching rule gives: Critical for a score of 95 or
\* more with confidence >= 0.95 and uncertainty <= 0.05, else High for 85
\* or more with confidence >= 0.90, else Medium for 60 or more, else Low
\* for 30 or more, else Informational.
FirstMatch(level, score, confidence, uncertainty) ==
  LET critical == /\ score >= 95 * 100
                  /\ confidence >= (95 * UltraOne) \div 100
                  /\ uncertainty <= (5 * UltraOne) \div 100
      high == ~critical /\ score >= 85 * 100
                /\ confidence >= (90 * UltraOne) \div 100
      medium == ~critical /\ ~high /\ score >= 60 * 100
      low == ~critical /\ ~high /\ ~medium /\ score >= 30 * 100
  IN  /\ level = "Critical" <=> critical
      /\ level = "High" <=> high
      /\ level = "Medium" <=> medium
      /\ level = "Low" <=> low
      /\ level = "Informational" <=> (~critical /\ ~high /\ ~medium /\ ~low)

\* C22: the risk level of a result of the full pipeline follows from its
\* final score (after the historical adjustment), its confidence and its
\* uncertainty by the first matching rule, and so does the value of
\* _categorize_risk_ultra_precise for any arguments; a score of 85 or more
\* with confidence below 0.90 is Medium.
C22_RiskLevel ==
  /\ ("precision_level" \in DOMAIN uret /\ calls_log[Len(calls_log)].path = "full")
       => /\ FirstMatch(uret.risk_level, uret.score, uret.confidence,
                        uret.uncertainty)
          /\ (uret.score >= 85 * 100 /\ uret.confidence < (90 * UltraOne) \div 100)
               => uret.risk_level = "Medium"
  /\ ("op" \in DOMAIN uret /\ uret.op = "_categorize_risk_ultra_precise")
       => /\ FirstMatch(uret.value, uret.args[1], uret.args[2], uret.args[3])
          /\ (uret.args[1] >= 85 * 100 /\ uret.args[2] < (90 * UltraOne) \div 100)
               => uret.value = "Medium"

\* A result of the full pipeline whose score the historical data raised
\* from below 95 to the cap, labelled Medium for its confidence below 0.90.
C22_Witness ==
  /\ "precision_level" \in DOMAIN uret
  /\ calls_log[Len(calls_log)].path = "full"
  /\ uret.score = UltraHundred
  /\ uret.confidence < (90 * UltraOne) \div 100
  /\ uret.risk_level = "Medium"
  /\ \E input \in GateInputs :
       /\ input.historical_data.given
       /\ GateResults[input].result = uret
       /\ calculate_ultra_precise_risk(
            [input EXCEPT !.historical_data = NoHistory]).result.score < 95 * 100

\* C23: the summary get_risk_summary returns has average_risk_score equal
\* to the mean of the assets' risk_score (0 with no assets),
\* total_vulnerabilities equal to the number of vulnerabilities stored and
\* a scenario count equal to the length of the stored scenario list, with
\* or without assets.
C23_SummaryCounts ==
  ret.op = "get_risk_summary" =>
    /\ ret.value.average_risk_score =
         (IF assets = <<>> THEN 0
          ELSE SumSeq([i \in 1..Len(assets) |-> assets[i].risk_score])
                 \div Len(assets))
    /\ ret.value.total_vulnerabilities = Len(vulnerabilities)
    /\ "risk_scenarios" \in DOMAIN ret.value
    /\ ret.value.risk_scenarios = Len(risk_scenarios)

\* C24: what calculate_all_risks returns has, next to summary, risk_results
\* and scenarios, an entry ultra_results with one ensemble score per asset,
\* each with a score, a confidence, a precision level and an uncertainty.
C24_UltraResults ==
  \A t \in Callers :
    out[t].op = "calculate_all_risks" =>
      /\ {"summary", "risk_results", "scenarios"} \subseteq DOMAIN out[t]
      /\ "ultra_results" \in DOMAIN out[t]
      /\ DOMAIN out[t].ultra_results = 1..Len(assets)
      /\ \A id \in DOMAIN out[t].ultra_results :
           {"score", "confidence", "precision_level", "uncertainty"}
             \subseteq DOMAIN out[t].ultra_results[id]

\* Whether the estimates of a list are all the same.
AllEqual(predictions) ==
  \A i, j \in 1..Len(predictions) : predictions[i] = predictions[j]

\* C25: for five equal estimates, all 0 included,
\* _calculate_model_agreement returns 1.0 and the test of the gate passes;
\* no call whose five estimates are equal returns a result of tier low.
C25_EqualEstimates ==
  /\ ("op" \in DOMAIN uret /\ uret.op = "_calculate_model_agreement"
        /\ AllEqual(uret.args))
       => uret.value = UltraOne /\ ~uret.low
  /\ ("precision_level" \in DOMAIN uret /\ uret.precision_level = "low")
       => \A input \in GateInputs :
            (GateEstimates[input] # <<>> /\ AllEqual(GateEstimates[input]))
              => GateResults[input].result # uret

\* The agreement of five estimates of 0.
C25_Witness ==
  /\ "op" \in DOMAIN uret
  /\ uret.op = "_calculate_model_agreement"
  /\ uret.args = <<0, 0, 0, 0, 0>>
  /\ uret.value = UltraOne
  /\ \E input \in GateInputs :
       /\ GateEstimates[input] # <<>>
       /\ AllEqual(GateEstimates[input])
       /\ GateResults[input].path = "full"

\* C26: the score of every result lies inside its confidence interval,
\* lower <= score <= upper, also when previous compromises have raised the
\* score.
C26_ScoreInInterval ==
  "precision_level" \in DOMAIN uret =>
    /\ uret.confidence_interval[1] <= uret.score
    /\ uret.score <= uret.confidence_interval[2]

\* C27: generate_risk_scenarios leaves the risk_score of every asset as it
\* was before the pass, also when a vulnerability or a threat-intelligence
\* entry was added after the asset was last scored.
C27_ScoresKept ==
  [][GenerateRiskScenarios =>
       \A i \in 1..Len(assets) : assets'[i].risk_score = assets[i].risk_score]_vars

\* C28: a multi-stage exploitation scenario is stored for an asset only if
\* its vulnerability_ids resolve to at least two distinct Critical
\* vulnerabilities, and no scenario names a vulnerability id twice in its
\* correlated_vulnerability_ids.
C28_DistinctCriticals ==
  ret.op = "generate_risk_scenarios" =>
    \A k \in 1..Len(risk_scenarios) :
      LET scenario == risk_scenarios[k]
          ids == scenario.correlated_vulnerability_ids
      IN  /\ scenario.id.prefix = "rs_exploit" =>
               Cardinality({vid \in Range(assets[scenario.id.asset].vulnerability_ids) :
                              /\ vid \in 1..Len(vulnerabilities)
                              /\ vulnerabilities[vid].severity = "Critical"}) >= 2
          /\ \A i, j \in 1..Len(ids) : ids[i] = ids[j] => i = j

\* C29: no call for an asset with 1 to 4 vulnerabilities returns a result
\* of tier ultra_high or of risk level Critical or High, and its
\* confidence, when the estimates agree, is below 0.90.
C29_FewVulnerabilities ==
  "precision_level" \in DOMAIN uret =>
    \A input \in GateInputs :
      (Len(input.vulnerabilities) \in 1..4 /\ GateResults[input].result = uret)
        => /\ uret.precision_level # "ultra_high"
           /\ uret.risk_level \notin {"Critical", "High"}
           /\ calls_log[Len(calls_log)].path = "full" =>
                uret.confidence < (90 * UltraOne) \div 100

\* A full result for four vulnerabilities with agreement 1.0, uncertainty
\* 0.0 and both bonuses: the confidence is 0.85 * 1.02 * 1.02 and the score
\* is at the cap.
C29_Witness ==
  /\ "precision_level" \in DOMAIN uret
  /\ calls_log[Len(calls_log)].path = "full"
  /\ uret.model_agreement = UltraOne
  /\ uret.uncertainty = 0
  /\ uret.score = UltraHundred
  /\ uret.confidence > (88 * UltraOne) \div 100
  /\ uret.risk_level = "Medium"
  /\ \E input \in GateInputs :
       /\ Len(input.vulnerabilities) = 4
       /\ GateResults[input].result = uret

\* C30: the risk level of every result, on every path, is one of Critical,
\* High, Medium, Low and Informational.
C30_RiskLevelEnum ==
  "precision_level" \in DOMAIN uret =>
    uret.risk_level \in {"Critical", "High", "Medium", "Low", "Informational"}

====
